---- MODULE Spec2Model ----
(***************************************************************************)
(* A model of the benchmarking_go load generator: the Runner's worker      *)
(* loops (request mode and scenario mode, fixed-count and duration mode),  *)
(* the shared cancellation context, the concurrency semaphore, the token   *)
(* bucket RateLimiter, and the Stats aggregate the workers record into.    *)
(***************************************************************************)
EXTENDS Integers, Naturals, Sequences, FiniteSets, TLC

(* ---------------------------- bounds ----------------------------------- *)

\* Settings.ConcurrentUsers of the modelled configurations.
ConcurrentUsers == 2

\* Settings.RequestsPerUser of the modelled configurations.
RequestsPerUser == 1

\* Largest Settings.RateLimit tried (0 = no limiter).
MaxRate == 1

\* Most loop iterations one worker performs in duration mode.
MaxIterations == 1

\* Number of goroutines calling Wait on the RateLimiter under test.
NumCallers == 2

\* Most ticks of the refill ticker counted for the RateLimiter under test.
MaxTicks == 3

\* Request definitions and the largest weight of the selector under test.
MaxDefs == 3

MaxWeight == 3

\* Latency samples recorded and the largest latency (microseconds).
MaxSamples == 3

MaxLatency == 3

\* The ramp-up harness: the longest ramp-up (seconds) and the most users.
MaxRampUpSec == 3
MaxUsers == 4

(* ---------------------------- state ------------------------------------ *)

VARIABLES
    cfg,          \* the configuration of the run (read-only during the run)
    runPc,        \* Run / RunScenario: "running" (workers spawned), "done"
    cancelled,    \* benchCtx is done
    interrupted,  \* the caller's ctx was cancelled (external interrupt)
    completed,    \* completedRequests / completedScenarios
    semaphore,    \* len(semaphore)
    tokens,       \* len(rateLimiter.tokens)
    stats,        \* the Stats counters
    reqStats,     \* Stats.RequestStats: name -> per-endpoint entry
    pc,           \* position of each worker goroutine
    iter,         \* loop counter j of each worker
    step,         \* index of the scenario step a worker is at
    reqConfig,    \* the request definition a worker selected ("" = none)
    aborted,      \* number of in-flight calls ended by the run's cancellation
    ticks,        \* RateLimiter under test: ticks handled by the refill goroutine
    granted,      \* RateLimiter under test: Wait calls that returned true
    caller,       \* RateLimiter under test: position of each calling goroutine
    selector,     \* WeightedRequestSelector under test
    picked,       \* WeightedRequestSelector under test: the last Select
    responseTimes,      \* Stats.responseTimes, the latency samples in order
    totalResponseTime,  \* Stats.totalResponseTime
    query,              \* the last percentile query and its answer
    requestsPerSecond,  \* Stats.RequestsPerSecond
    thresholds,         \* the ThresholdConfig given to EvaluateThresholds
    results,            \* what EvaluateThresholds returned (<<>>: not called)
    executor,           \* ScenarioExecutor under test: its ExecuteScenario calls
    activeWorkers,      \* Runner.activeWorkers
    variableMaps,       \* the variable maps in memory: Config.Variables and
                        \* the map each ExecuteScenario call made for itself
    instances,          \* the ExecuteScenario call of each scenario worker
    iterationCounter,   \* the package-level iterationCounter
    iterations,         \* the values substituted for {{$iteration}}, in order
    goroutines,         \* Run's goroutines: workers, rate sampler, timer, Run
    invocation,         \* main: the configuration strings and how far it got
    rampUp,             \* startWorkers: RampUpSec, the users, the delays
    endpoints,          \* Stats.mutex, Stats.RequestStats and its entries
    updaters,           \* the goroutines updating per-endpoint statistics
    counters,           \* the counters and the latency record of Stats
    recorders,          \* the goroutines recording request outcomes
    resolved,           \* the last resolveVariables call and its result
    validation,         \* the last validateResponse call and its result
    hdr                 \* the HdrStats under test and the one merged into it

vars == <<cfg, runPc, cancelled, interrupted, completed, semaphore, tokens,
          stats, reqStats, pc, iter, step, reqConfig, aborted, activeWorkers,
          ticks, granted, caller, selector, picked,
          responseTimes, totalResponseTime, query,
          requestsPerSecond, thresholds, results, executor,
          variableMaps, instances, iterationCounter, iterations,
              goroutines,
          invocation, rampUp,
          endpoints, updaters, counters, recorders, resolved, validation,
          hdr>>

\* The state of the statistics under concurrent use, of resolveVariables, of
\* validateResponse and of HdrStats, each exercised on its own.
partVars == <<endpoints, updaters, counters, recorders, resolved, validation,
              hdr>>

\* The state of the scenario instances, of Run's goroutines, of main and of
\* the ramp-up computation, each exercised on its own.
unitVars == <<variableMaps, instances, iterationCounter, iterations,
              goroutines,
              invocation, rampUp, partVars>>

\* The state of the components exercised on their own.
fnVars == <<selector, picked, responseTimes, totalResponseTime, query,
            requestsPerSecond, thresholds, results, executor, unitVars>>

\* The variables of the RateLimiter harness, idle during a run of the Runner.
rlVars == <<ticks, granted, caller>>

\* The variables of the Runner's workers, idle in the RateLimiter harness.
workerVars == <<interrupted, completed, semaphore, stats, reqStats, pc, iter,
                step, reqConfig, aborted, activeWorkers>>

\* Config.Requests: the names of the request definitions (request mode).
Requests == {"A"}

\* Config.Steps: the names of the steps, in declared order (scenario mode).
Steps == <<"login", "fetch">>

NumSteps == Len(Steps)

\* startWorkers / startScenarioWorkers: one goroutine per concurrent user.
Workers == 1 .. ConcurrentUsers

\* make(chan struct{}, ConcurrentUsers)
SemaphoreCap == ConcurrentUsers

\* The kinds of failure the target endpoint (or the configuration) produces
\* in a run; "none" is an endpoint that always answers 200.
RequestFaults == {"none", "construct", "transport", "read", "http"}
ScenarioFaults == RequestFaults \cup {"validation"}

(* ---------------------------- Stats ------------------------------------ *)

\* NewStats: all counters zero, no per-endpoint entry.
NewStats ==
    [TotalRequests |-> 0, SuccessCount |-> 0, FailureCount |-> 0,
     errors |-> 0, responseCount |-> 0, stamped |-> FALSE]

IncrementSuccess(s) == [s EXCEPT !.SuccessCount = @ + 1]

IncrementFailure(s) == [s EXCEPT !.FailureCount = @ + 1]

\* AddError: one more entry tallied in the error table.
AddError(s) == [s EXCEPT !.errors = @ + 1]

\* AddResponseTime: one more latency sample.
AddResponseTime(s) == [s EXCEPT !.responseCount = @ + 1]

\* GetOrCreateRequestStats: the entry of a name is created on first use.
GetOrCreateRequestStats(rs, name) ==
    IF name \in DOMAIN rs
    THEN rs
    ELSE rs @@ (name :> [RequestCount |-> 0, SuccessCount |-> 0, FailureCount |-> 0])

\* The locked update of one per-endpoint entry: RequestCount++ and one of
\* SuccessCount++ / FailureCount++.
updateRequestStats(rs, name, success) ==
    LET e == GetOrCreateRequestStats(rs, name)
    IN  [e EXCEPT ![name] =
            [RequestCount |-> @.RequestCount + 1,
             SuccessCount |-> @.SuccessCount + (IF success THEN 1 ELSE 0),
             FailureCount |-> @.FailureCount + (IF success THEN 0 ELSE 1)]]

RECURSIVE SumRequestCount(_, _)
SumRequestCount(rs, names) ==
    IF names = {} THEN 0
    ELSE LET n == CHOOSE x \in names : TRUE
         IN  rs[n].RequestCount + SumRequestCount(rs, names \ {n})

\* Sum of RequestCount over all per-endpoint entries.
TotalPerEndpoint == SumRequestCount(reqStats, DOMAIN reqStats)

(* ---------------------------- RateLimiter ------------------------------ *)

\* make(chan struct{}, ratePerSecond*2)
TokenCap(rate) == 2 * rate

\* The initial fill loop running to the capacity of the buffer.
InitialTokens_Full(rate) == TokenCap(rate)

\* The initial fill loop of NewRateLimiter: ratePerSecond non-blocking sends.
InitialTokens(rate) == IF rate <= TokenCap(rate) THEN rate ELSE TokenCap(rate)

\* One tick of the refill goroutine: a non-blocking send.
TickTokens(t, rate) == IF t < TokenCap(rate) THEN t + 1 ELSE t

\* Wait without the ctx.Done() case: a plain receive from the token channel.
WaitOutcomes_NoCtx(t, done) == IF t > 0 THEN {<<TRUE, t - 1>>} ELSE {}

\* RateLimiter.Wait: the select over ctx.Done() and the token channel. The
\* set of <<result, tokens left>> the select can produce; empty = blocked.
WaitOutcomes(t, done) ==
    (IF t > 0 THEN {<<TRUE, t - 1>>} ELSE {})
        \cup (IF done THEN {<<FALSE, t>>} ELSE {})

PartIdle ==
    /\ endpoints = <<>>
    /\ updaters = <<>>
    /\ counters = <<>>
    /\ recorders = <<>>
    /\ resolved = <<>>
    /\ validation = <<>>
    /\ hdr = <<>>

\* No component is exercised on its own.
UnitIdle ==
    /\ variableMaps = <<>>
    /\ instances = <<>>
    /\ iterationCounter = 0
    /\ iterations = <<>>
    /\ goroutines = <<>>
    /\ invocation = <<>>
    /\ rampUp = <<>>
    /\ PartIdle

FnIdle ==
    /\ selector = <<>>
    /\ picked = <<>>
    /\ responseTimes = <<>>
    /\ totalResponseTime = 0
    /\ query = <<>>
    /\ requestsPerSecond = 0
    /\ thresholds = <<>>
    /\ results = <<>>
    /\ executor = <<>>
    /\ UnitIdle

(* ---------------------------- Runner ----------------------------------- *)

\* Run never creating a limiter.
HasLimiter_Never == FALSE

\* A limiter created in scenario mode too.
HasLimiter_AnyMode == cfg.rate > 0

\* Run creates a limiter only in request mode with Settings.RateLimit > 0.
HasLimiter == ~cfg.scenario /\ cfg.rate > 0

\* The workers are handed a context that is never cancelled.
CtxDone_Never == FALSE

\* <-ctx.Done() is ready: the benchmark context handed to the workers.
CtxDone == cancelled

\* calculateTotalRequests / totalScenarios (fixed-count mode).
calculateTotalRequests == ConcurrentUsers * RequestsPerUser

\* The test off by one: the run is cancelled one item early.
ReachedTotal_OffByOne(n) == n >= calculateTotalRequests - 1

\* The fixed-count workers' test after each item: completed >= total.
ReachedTotal(n) == n >= calculateTotalRequests

\* The configurations tried. fault is the kind of failure the run meets
\* ("none": every call answers 200). In request mode any call may meet it; in
\* scenario mode the step faultAt may meet it and every other step answers 200.
\* Scenario mode ignores the rate limit, so one positive value is tried there.
\* Every worker but the first starts in its ramp-up delay: a run without
\* ramp-up is the run in which each delay elapses at once.
Configs ==
    {c \in [scenario : BOOLEAN, duration : BOOLEAN, rate : 0 .. MaxRate,
            fault : ScenarioFaults, faultAt : 0 .. NumSteps] :
        /\ ~c.scenario => c.fault \in RequestFaults /\ c.faultAt = 0
        /\ c.scenario => c.rate = MaxRate /\ (c.faultAt = 0 <=> c.fault = "none")}

Init ==
    /\ cfg \in Configs
    /\ runPc = "running"
    /\ cancelled = FALSE
    /\ interrupted = FALSE
    /\ completed = 0
    /\ semaphore = 0
    /\ tokens = IF HasLimiter THEN InitialTokens(cfg.rate) ELSE 0
    /\ stats = NewStats
    /\ reqStats = <<>>
    /\ pc = [w \in Workers |-> IF w > 1 THEN "ramp" ELSE "top"]
    /\ iter = [w \in Workers |-> 0]
    /\ step = [w \in Workers |-> 0]
    /\ reqConfig = [w \in Workers |-> ""]
    /\ aborted = 0
    /\ activeWorkers = Cardinality({w \in Workers : pc[w] # "ramp"})
    /\ ticks = 0
    /\ granted = 0
    /\ caller = <<>>
    /\ FnIdle

\* A worker goroutine returns (its deferred wg.Done runs).
Exit(w) == pc' = [pc EXCEPT ![w] = "exited"]

\* defer atomic.AddInt32(&r.activeWorkers, -1) of runWorker and
\* runScenarioWorker: it runs when a worker past its ramp-up returns.
Deferred(w) ==
    activeWorkers' = IF pc'[w] = "exited" THEN activeWorkers - 1
                                          ELSE activeWorkers

\* The ramp-up delay with the worker counted before it: a worker whose delay
\* is interrupted stays counted.
RampUp_CountedBeforeDelay(w) ==
    /\ pc[w] = "ramp"
    /\ \/ CtxDone /\ Exit(w) /\ activeWorkers' = activeWorkers + 1
       \/ /\ pc' = [pc EXCEPT ![w] = "top"]
          /\ activeWorkers' = activeWorkers + 1
    /\ UNCHANGED <<rlVars, fnVars>>
    /\ UNCHANGED <<cfg, runPc, cancelled, interrupted, completed, semaphore,
                   tokens, stats, reqStats, iter, step, reqConfig, aborted>>

\* The ramp-up delay of runWorker / runScenarioWorker: a select over
\* ctx.Done() and the timer. The worker is counted in activeWorkers once the
\* delay has elapsed, not when the delay is interrupted.
RampUp(w) ==
    /\ pc[w] = "ramp"
    /\ \/ CtxDone /\ Exit(w) /\ UNCHANGED activeWorkers
       \/ /\ pc' = [pc EXCEPT ![w] = "top"]
          /\ activeWorkers' = activeWorkers + 1
    /\ UNCHANGED <<rlVars, fnVars>>
    /\ UNCHANGED <<cfg, runPc, cancelled, interrupted, completed, semaphore,
                   tokens, stats, reqStats, iter, step, reqConfig, aborted>>

\* The head of the worker loop: the loop condition (fixed-count mode) and the
\* non-blocking check of ctx.Done().
LoopTop(w) ==
    /\ pc[w] = "top"
    /\ IF ~cfg.duration /\ iter[w] >= RequestsPerUser
       THEN Exit(w)
       ELSE IF CtxDone
            THEN Exit(w)
            ELSE /\ cfg.duration => iter[w] < MaxIterations
                 /\ pc' = [pc EXCEPT ![w] = IF HasLimiter THEN "wait" ELSE "acq"]
    /\ UNCHANGED <<rlVars, fnVars>>
    /\ UNCHANGED <<cfg, runPc, cancelled, interrupted, completed, semaphore,
                   tokens, stats, reqStats, iter, step, reqConfig, aborted>>
    /\ Deferred(w)

\* r.rateLimiter.Wait(ctx) in runDurationWorker / runFixedWorker.
WaitToken(w) ==
    /\ pc[w] = "wait"
    /\ \E o \in WaitOutcomes(tokens, CtxDone) :
          /\ tokens' = o[2]
          /\ IF o[1] THEN pc' = [pc EXCEPT ![w] = "acq"] ELSE Exit(w)
    /\ UNCHANGED <<rlVars, fnVars>>
    /\ UNCHANGED <<cfg, runPc, cancelled, interrupted, completed, semaphore,
                   stats, reqStats, iter, step, reqConfig, aborted>>
    /\ Deferred(w)

\* Release with the receive from the semaphore forgotten.
Release_NoSlot(w) ==
    /\ completed' = completed + 1
    /\ semaphore' = semaphore
    /\ iter' = [iter EXCEPT ![w] = @ + 1]
    /\ step' = [step EXCEPT ![w] = 0]
    /\ reqConfig' = [reqConfig EXCEPT ![w] = ""]
    /\ pc' = [pc EXCEPT ![w] = IF cfg.duration THEN "top" ELSE "chk"]

\* After one item: atomic.AddInt64(completed, 1) and <-semaphore.
Release(w) ==
    /\ completed' = completed + 1
    /\ semaphore' = semaphore - 1
    /\ iter' = [iter EXCEPT ![w] = @ + 1]
    /\ step' = [step EXCEPT ![w] = 0]
    /\ reqConfig' = [reqConfig EXCEPT ![w] = ""]
    /\ pc' = [pc EXCEPT ![w] = IF cfg.duration THEN "top" ELSE "chk"]

\* What one request-mode attempt with outcome o adds to Stats
\* (processRequest and recordResponse).
RecordRequest(s, o) ==
    CASE o = "construct" -> AddError(IncrementFailure(s))
      [] o = "transport" -> AddError(IncrementFailure(s))
      [] o = "read"      -> AddError(IncrementFailure(s))
      [] o = "http"      -> AddResponseTime(AddError(IncrementFailure(s)))
      [] o = "ok"        -> AddResponseTime(IncrementSuccess(s))

\* processRequest calls updateRequestStats on every path.
RecordRequestEntry(rs, name, o) == updateRequestStats(rs, name, o = "ok")

\* processRequest up to client.Do, for the selected definition d: body
\* preparation or request construction may fail, which ends the attempt;
\* otherwise the call is dispatched. The context is not consulted.
BeginRequest(w, d) ==
    \/ /\ cfg.fault = "construct"
       /\ stats' = RecordRequest(stats, "construct")
       /\ reqStats' = RecordRequestEntry(reqStats, d, "construct")
       /\ completed' = completed + 1
       /\ iter' = [iter EXCEPT ![w] = @ + 1]
       /\ pc' = [pc EXCEPT ![w] = IF cfg.duration THEN "top" ELSE "chk"]
       /\ UNCHANGED <<semaphore, reqConfig>>
    \/ /\ pc' = [pc EXCEPT ![w] = "do"]
       /\ reqConfig' = [reqConfig EXCEPT ![w] = d]
       /\ semaphore' = semaphore + 1
       /\ UNCHANGED <<stats, reqStats, completed, iter>>

\* The select over ctx.Done() and the send on the semaphore: Go picks any
\* ready case. With the slot a request-mode worker selects a definition and
\* runs processRequest; a scenario worker enters ExecuteScenario.
Acquire(w) ==
    /\ pc[w] = "acq"
    /\ \/ /\ CtxDone
          /\ Exit(w)
          /\ UNCHANGED <<semaphore, step, reqConfig, stats, reqStats, completed, iter>>
       \/ /\ semaphore < SemaphoreCap
          /\ IF cfg.scenario
             THEN /\ semaphore' = semaphore + 1
                  /\ pc' = [pc EXCEPT ![w] = "sctx"]
                  /\ step' = [step EXCEPT ![w] = 1]
                  /\ UNCHANGED <<reqConfig, stats, reqStats, completed, iter>>
             ELSE /\ \E d \in Requests : BeginRequest(w, d)
                  /\ UNCHANGED step
    /\ UNCHANGED <<rlVars, fnVars>>
    /\ UNCHANGED <<cfg, runPc, cancelled, interrupted, tokens, aborted>>
    /\ Deferred(w)

\* The outcomes client.Do and the reading of the body can have against the
\* endpoint of this run.
CallOutcomes ==
    {"ok"} \cup (IF cfg.fault \in {"none", "construct"} THEN {} ELSE {cfg.fault})

\* client.Do returns in processRequest: the request context derives from
\* context.Background(), so only the endpoint decides the outcome.
FinishRequest(w) ==
    /\ pc[w] = "do"
    /\ \E o \in CallOutcomes :
          /\ stats' = RecordRequest(stats, o)
          /\ reqStats' = RecordRequestEntry(reqStats, reqConfig[w], o)
    /\ Release(w)
    /\ UNCHANGED <<rlVars, fnVars>>
    /\ UNCHANGED <<cfg, runPc, cancelled, interrupted, tokens, aborted>>
    /\ Deferred(w)

\* What one scenario step with outcome o adds to Stats (executeStep).
\* "canceled" is client.Do failing because the run's context was cancelled:
\* its text contains "context", so it is not added to the error table.
\* "validation" is a response on which a validation rule fails.
RecordStep(s, o) ==
    CASE o = "construct"  -> AddError(IncrementFailure(s))
      [] o = "transport"  -> AddError(IncrementFailure(s))
      [] o = "canceled"   -> IncrementFailure(s)
      [] o = "read"       -> IncrementFailure(s)
      [] o = "http"       -> IncrementFailure(AddResponseTime(s))
      [] o = "validation" -> AddError(AddResponseTime(s))
      [] o = "ok"         -> IncrementSuccess(AddResponseTime(s))

\* executeStep updates the per-step entry only when a response was read.
RecordStepEntry(rs, name, o) ==
    IF o \in {"ok", "http", "validation"}
    THEN updateRequestStats(rs, name, o = "ok")
    ELSE rs

\* The slot given back after every step, not only after the last one.
AfterStep_ReleaseBetweenSteps(w) ==
    IF step[w] >= NumSteps
    THEN Release(w)
    ELSE /\ step' = [step EXCEPT ![w] = @ + 1]
         /\ pc' = [pc EXCEPT ![w] = "sctx"]
         /\ semaphore' = semaphore - 1
         /\ UNCHANGED <<completed, iter, reqConfig>>

\* executeStep returned: the next step, or the end of ExecuteScenario.
AfterStep(w) ==
    IF step[w] >= NumSteps
    THEN Release(w)
    ELSE /\ step' = [step EXCEPT ![w] = @ + 1]
         /\ pc' = [pc EXCEPT ![w] = "sctx"]
         /\ UNCHANGED <<completed, semaphore, iter, reqConfig>>

\* The head of the step loop of ExecuteScenario, and executeStep up to
\* client.Do. A cancelled context ends the scenario instance at once.
BeginStep(w) ==
    /\ pc[w] = "sctx"
    /\ IF CtxDone
       THEN /\ Release(w)
            /\ UNCHANGED <<stats, reqStats>>
       ELSE \/ /\ cfg.fault = "construct" /\ cfg.faultAt = step[w]
               /\ stats' = RecordStep(stats, "construct")
               /\ reqStats' = RecordStepEntry(reqStats, Steps[step[w]], "construct")
               /\ AfterStep(w)
            \/ /\ pc' = [pc EXCEPT ![w] = "sdo"]
               /\ UNCHANGED <<stats, reqStats, completed, semaphore, iter, step,
                              reqConfig>>
    /\ UNCHANGED <<rlVars, fnVars>>
    /\ UNCHANGED <<cfg, runPc, cancelled, interrupted, tokens, aborted>>
    /\ Deferred(w)

\* client.Do returns in executeStep. The request context derives from the
\* run's context (context.WithTimeout(ctx, ...)), so a cancelled run can end
\* the call with a context error.
StepOutcomes(k) ==
    (IF cfg.faultAt = k THEN CallOutcomes ELSE {"ok"})
        \cup (IF CtxDone THEN {"canceled"} ELSE {})

FinishStep(w) ==
    /\ pc[w] = "sdo"
    /\ \E o \in StepOutcomes(step[w]) :
          /\ stats' = RecordStep(stats, o)
          /\ reqStats' = RecordStepEntry(reqStats, Steps[step[w]], o)
          /\ aborted' = aborted + (IF o = "canceled" THEN 1 ELSE 0)
    /\ AfterStep(w)
    /\ UNCHANGED <<rlVars, fnVars>>
    /\ UNCHANGED <<cfg, runPc, cancelled, interrupted, tokens>>
    /\ Deferred(w)

\* Fixed-count mode, after the item: load the completed counter and cancel
\* the run when it has reached the total.
CheckTotal(w) ==
    /\ pc[w] = "chk"
    /\ IF ReachedTotal(completed)
       THEN /\ cancelled' = TRUE
            /\ Exit(w)
       ELSE /\ pc' = [pc EXCEPT ![w] = "top"]
            /\ UNCHANGED cancelled
    /\ UNCHANGED <<rlVars, fnVars>>
    /\ UNCHANGED <<cfg, runPc, interrupted, completed, semaphore, tokens,
                   stats, reqStats, iter, step, reqConfig, aborted>>
    /\ Deferred(w)

\* createBenchmarkContext: the duration timer fires.
TimerFire ==
    /\ cfg.duration
    /\ runPc = "running"
    /\ ~cancelled
    /\ cancelled' = TRUE
    /\ UNCHANGED <<rlVars, fnVars>>
    /\ UNCHANGED <<cfg, runPc, interrupted, completed, semaphore, tokens,
                   stats, reqStats, pc, iter, step, reqConfig, aborted>>
    /\ UNCHANGED activeWorkers

\* The caller cancels the context given to Run (external interrupt); the
\* benchmark context is its child.
Interrupt ==
    /\ runPc = "running"
    /\ ~interrupted
    /\ interrupted' = TRUE
    /\ cancelled' = TRUE
    /\ UNCHANGED <<rlVars, fnVars>>
    /\ UNCHANGED <<cfg, runPc, completed, semaphore, tokens, stats, reqStats,
                   pc, iter, step, reqConfig, aborted>>
    /\ UNCHANGED activeWorkers

\* The refill goroutine of the RateLimiter handles one tick.
Tick ==
    /\ HasLimiter
    /\ runPc = "running"
    /\ tokens' = TickTokens(tokens, cfg.rate)
    /\ UNCHANGED <<rlVars, fnVars>>
    /\ UNCHANGED <<cfg, runPc, cancelled, interrupted, completed, semaphore,
                   stats, reqStats, pc, iter, step, reqConfig, aborted>>
    /\ UNCHANGED activeWorkers

\* The value Run / RunScenario stamps into Stats.TotalRequests.
FinalTotal ==
    IF cfg.scenario THEN completed * NumSteps ELSE completed

\* wg.Wait() returns; Run / RunScenario stamps the totals and returns (the
\* deferred benchCancel runs in fixed-count mode).
Finish ==
    /\ runPc = "running"
    /\ \A w \in Workers : pc[w] = "exited"
    /\ stats' = [stats EXCEPT !.TotalRequests = FinalTotal, !.stamped = TRUE]
    /\ runPc' = "done"
    /\ cancelled' = (cancelled \/ ~cfg.duration)
    /\ UNCHANGED <<rlVars, fnVars>>
    /\ UNCHANGED <<cfg, interrupted, completed, semaphore, tokens, reqStats,
                   pc, iter, step, reqConfig, aborted>>
    /\ UNCHANGED activeWorkers

Next ==
    \/ \E w \in Workers :
          \/ RampUp(w)
          \/ LoopTop(w)
          \/ WaitToken(w)
          \/ Acquire(w)
          \/ FinishRequest(w)
          \/ BeginStep(w)
          \/ FinishStep(w)
          \/ CheckTotal(w)
    \/ TimerFire
    \/ Interrupt
    \/ Tick
    \/ Finish

Spec == Init /\ [][Next]_vars

\* All the steps of worker goroutine w.
WorkerStep(w) ==
    \/ RampUp(w)
    \/ LoopTop(w)
    \/ WaitToken(w)
    \/ Acquire(w)
    \/ FinishRequest(w)
    \/ BeginStep(w)
    \/ FinishStep(w)
    \/ CheckTotal(w)

\* The Go scheduler runs every runnable goroutine, every HTTP call returns
\* (client.Timeout), the duration timer and the refill ticker fire.
Fairness ==
    /\ \A w \in Workers : WF_vars(WorkerStep(w))
    /\ WF_vars(TimerFire)
    /\ WF_vars(Tick)
    /\ WF_vars(Finish)

\* Termination is checked against the endpoint that always answers: the
\* outcome of a call is only recorded, no worker branches on it.
LiveInit == Init /\ cfg.fault = "none"

FairSpec == LiveInit /\ [][Next]_vars /\ Fairness

(* ---------------------------- RateLimiter under test ------------------- *)

\* NewRateLimiter: nil for a rate <= 0, otherwise a bucket holding the
\* initial fill (the refill goroutine exists only for a limiter that is built).
NewRateLimiter(ratePerSecond) ==
    IF ratePerSecond <= 0
    THEN [nil |-> TRUE, tokens |-> 0]
    ELSE [nil |-> FALSE, tokens |-> InitialTokens(ratePerSecond)]

\* Wait on a nil limiter made to wait on the (absent) bucket.
Wait_NilBlocks(rl, t, done) == WaitOutcomes(t, done)

\* RateLimiter.Wait: true at once on a nil receiver, the select otherwise.
Wait(rl, t, done) == IF rl.nil THEN {<<TRUE, t>>} ELSE WaitOutcomes(t, done)

\* The limiter NewRateLimiter(rate) returns, rate <= 0 included, used by
\* NumCallers goroutines that share one context; the ticks and the successful
\* waits are counted.
Callers == 1 .. NumCallers

\* The rates a limiter is asked for: negative, zero and positive.
RLRates == (0 - 1) .. MaxRate

\* Calls of Wait explored per run (no real limiter grants more than that).
MaxGranted == MaxRate + MaxTicks

InitRL ==
    /\ cfg \in {[c EXCEPT !.rate = r] :
                  c \in {d \in Configs : ~d.scenario /\ d.duration /\ d.rate = 0
                                            /\ d.fault = "none"},
                  r \in RLRates}
    /\ runPc = "running"
    /\ cancelled = FALSE
    /\ tokens = NewRateLimiter(cfg.rate).tokens
    /\ ticks = 0
    /\ granted = 0
    /\ caller = [c \in Callers |-> "idle"]
    /\ interrupted = FALSE
    /\ completed = 0
    /\ semaphore = 0
    /\ stats = NewStats
    /\ reqStats = <<>>
    /\ pc = [w \in Workers |-> "exited"]
    /\ iter = [w \in Workers |-> 0]
    /\ step = [w \in Workers |-> 0]
    /\ reqConfig = [w \in Workers |-> ""]
    /\ aborted = 0
    /\ activeWorkers = 0
    /\ FnIdle

\* The refill goroutine handles one tick (until Stop closes done).
RLTick ==
    /\ runPc = "running"
    /\ ~NewRateLimiter(cfg.rate).nil
    /\ ticks < MaxTicks
    /\ tokens' = TickTokens(tokens, cfg.rate)
    /\ ticks' = ticks + 1
    /\ UNCHANGED <<cfg, runPc, cancelled, granted, caller, workerVars, fnVars>>

\* A goroutine calls rl.Wait(ctx).
RLCall(c) ==
    /\ caller[c] # "waiting"
    /\ granted < MaxGranted
    /\ caller' = [caller EXCEPT ![c] = "waiting"]
    /\ UNCHANGED <<cfg, runPc, cancelled, tokens, ticks, granted, workerVars, fnVars>>

\* Wait returns: true with a token received, false with the context done.
RLReturn(c) ==
    /\ caller[c] = "waiting"
    /\ \E o \in Wait(NewRateLimiter(cfg.rate), tokens, cancelled) :
          /\ tokens' = o[2]
          /\ caller' = [caller EXCEPT ![c] = IF o[1] THEN "true" ELSE "false"]
          /\ granted' = granted + (IF o[1] THEN 1 ELSE 0)
    /\ UNCHANGED <<cfg, runPc, cancelled, ticks, workerVars, fnVars>>

\* The callers' context is cancelled.
RLCancel ==
    /\ ~cancelled
    /\ cancelled' = TRUE
    /\ UNCHANGED <<cfg, runPc, tokens, ticks, granted, caller, workerVars, fnVars>>

\* RateLimiter.Stop: closes done and stops the ticker.
RLStop ==
    /\ runPc = "running"
    /\ runPc' = "done"
    /\ UNCHANGED <<cfg, cancelled, tokens, ticks, granted, caller, workerVars, fnVars>>

NextRL ==
    \/ RLTick
    \/ \E c \in Callers : RLCall(c) \/ RLReturn(c)
    \/ RLCancel
    \/ RLStop

\* A goroutine blocked in Wait runs as soon as the select has a ready case.
RLSpec ==
    InitRL /\ [][NextRL]_vars /\ \A c \in Callers : WF_vars(RLReturn(c))

(* ---------------------------- components on their own ------------------ *)

\* No run is in progress: no worker, no limiter.
RunnerIdle ==
    /\ cfg = [scenario |-> FALSE, duration |-> FALSE, rate |-> 0,
              fault |-> "none", faultAt |-> 0]
    /\ runPc = "done"
    /\ cancelled = FALSE
    /\ interrupted = FALSE
    /\ completed = 0
    /\ semaphore = 0
    /\ tokens = 0
    /\ reqStats = <<>>
    /\ pc = [w \in Workers |-> "exited"]
    /\ iter = [w \in Workers |-> 0]
    /\ step = [w \in Workers |-> 0]
    /\ reqConfig = [w \in Workers |-> ""]
    /\ aborted = 0
    /\ activeWorkers = 0
    /\ ticks = 0
    /\ granted = 0
    /\ caller = <<>>

runnerVars == <<cfg, runPc, cancelled, interrupted, completed, semaphore,
                tokens, reqStats, pc, iter, step, reqConfig, aborted,
                activeWorkers, ticks, granted, caller>>

(* ---------------------------- WeightedRequestSelector ------------------ *)

\* The weight lists of the request definitions (config.go sets a weight of 0
\* to 1 before the selector is built).
WeightLists == UNION {[1 .. n -> 1 .. MaxWeight] : n \in 1 .. MaxDefs}

\* The running sum of the constructor's loop over the first i requests.
RECURSIVE Cumulative(_, _)
Cumulative(requests, i) ==
    IF i = 0 THEN 0 ELSE Cumulative(requests, i - 1) + requests[i]

\* NewWeightedRequestSelector: cumulativeWeights[i] and totalWeight.
NewWeightedRequestSelector(requests) ==
    [requests          |-> requests,
     cumulativeWeights |-> [i \in 1 .. Len(requests) |-> Cumulative(requests, i)],
     totalWeight       |-> Cumulative(requests, Len(requests))]

\* The linear scan of Select from index i: the first index whose cumulative
\* weight exceeds r, the last request when the loop falls through.
RECURSIVE ScanFrom(_, _, _)
ScanFrom(s, r, i) ==
    IF i > Len(s.requests) THEN Len(s.requests)
    ELSE IF r < s.cumulativeWeights[i] THEN i
    ELSE ScanFrom(s, r, i + 1)

\* Select scanning for the draw shifted to 1 .. totalWeight.
Select_ShiftedDraw(s, r) ==
    IF Len(s.requests) = 1 THEN 1 ELSE ScanFrom(s, r + 1, 1)

\* Select for the draw r = rand.Intn(totalWeight); a single request is
\* returned without a draw. The result is the (1-based) index of the request.
Select(s, r) == IF Len(s.requests) = 1 THEN 1 ELSE ScanFrom(s, r, 1)

\* The values rand.Intn(totalWeight) can return.
Draws(s) == 0 .. s.totalWeight - 1

SelInit ==
    /\ RunnerIdle
    /\ stats = NewStats
    /\ selector \in {NewWeightedRequestSelector(w) : w \in WeightLists}
    /\ picked = <<>>
    /\ responseTimes = <<>>
    /\ totalResponseTime = 0
    /\ query = <<>>
    /\ requestsPerSecond = 0
    /\ thresholds = <<>>
    /\ results = <<>>
    /\ executor = <<>>
    /\ UnitIdle

\* One call of Select.
SelSelect ==
    /\ \E r \in Draws(selector) :
          picked' = [r |-> r, request |-> Select(selector, r)]
    /\ UNCHANGED <<runnerVars, stats, selector, responseTimes,
                   totalResponseTime, query, requestsPerSecond, thresholds, results, executor,
                   unitVars>>

SelNext == SelSelect

SelSpec == SelInit /\ [][SelNext]_vars

(* ---------------------------- Stats: latency samples ------------------- *)

\* math.Ceil(a / b) for an integer a and b > 0.
Ceil(a, b) == 0 - ((0 - a) \div b)

Min(a, b) == IF a < b THEN a ELSE b

Max(a, b) == IF a > b THEN a ELSE b

\* x inserted into the ascending sequence t.
RECURSIVE Insert(_, _)
Insert(t, x) ==
    IF t = <<>> THEN <<x>>
    ELSE IF x <= Head(t) THEN <<x>> \o t
    ELSE <<Head(t)>> \o Insert(Tail(t), x)

\* sort.Float64s: the samples in ascending order.
RECURSIVE SortFloat64s(_)
SortFloat64s(t) ==
    IF t = <<>> THEN <<>> ELSE Insert(SortFloat64s(Tail(t)), Head(t))

\* 2^e for e >= 0.
RECURSIVE Pow2(_)
Pow2(e) == IF e = 0 THEN 1 ELSE 2 * Pow2(e - 1)

\* 2^e modulo m.
RECURSIVE Pow2Mod(_, _)
Pow2Mod(e, m) == IF e = 0 THEN 1 % m ELSE (2 * Pow2Mod(e - 1, m)) % m

\* The binary exponent of num / den > 0: the a with 2^a <= num/den < 2^(a+1).
RECURSIVE Exponent(_, _)
Exponent(num, den) ==
    IF num < den THEN Exponent(2 * num, den) - 1
    ELSE IF num >= 2 * den THEN Exponent(num, 2 * den) + 1
    ELSE 0

\* math.Ceil(float64(percentile) / 100.0 * float64(n)) in IEEE-754 binary64,
\* round to nearest even. The quotient q = fl(percentile / 100) has a 53-bit
\* significand: with a its binary exponent, q = (percentile * 2^(52-a) + d)
\* / (100 * 2^(52-a)), where r is the remainder of percentile * 2^(52-a) by
\* 100 and d = -r (rounded down) or 100 - r (rounded up); r = 50 cannot
\* occur. The product q * n = percentile*n/100 + n*d / (100 * 2^(52-a)) is
\* rounded again. When percentile*n/100 is not an integer the two roundings
\* move the product by far less than its distance to an integer, so the
\* ceiling is the exact one. When it is an integer k, of binary exponent e,
\* the rounded product exceeds k exactly when the excess is more than half
\* a unit in the last place of k, 2^(e-53), and the ceiling is then k + 1.
\* For percentile <= 0 the product is at most 0 and so is its ceiling.
CeilFloat64(percentile, n) ==
    IF percentile <= 0 \/ n = 0 \/ (percentile * n) % 100 # 0
    THEN Ceil(percentile * n, 100)
    ELSE LET k == (percentile * n) \div 100
             a == Exponent(percentile, 100)
             r == (percentile * Pow2Mod(52 - a, 100)) % 100
             d == IF r < 50 THEN 0 - r ELSE 100 - r
             e == Exponent(k, 1)
         IN  IF 2 * n * d > 100 * Pow2(e - a) THEN k + 1 ELSE k

\* GetLatencyPercentile indexing the samples in recording order.
GetLatencyPercentile_Unsorted(times, percentile) ==
    IF Len(times) = 0 THEN 0
    ELSE LET index == CeilFloat64(percentile, Len(times)) - 1
         IN  times[Max(0, Min(Len(times) - 1, index)) + 1]

\* GetLatencyPercentile: 0 without samples, otherwise the element of the
\* sorted copy at clamp(ceil(p/100.0 * n) - 1, 0, n - 1), the quotient and
\* the product being float64 values.
GetLatencyPercentile(times, percentile) ==
    IF Len(times) = 0 THEN 0
    ELSE LET sorted == SortFloat64s(times)
             index  == CeilFloat64(percentile, Len(sorted)) - 1
         IN  sorted[Max(0, Min(Len(sorted) - 1, index)) + 1]

\* A float64 result as the exact fraction num / den (den = 0: NaN).
IsZero(f) == f.den # 0 /\ f.num = 0

\* AverageResponseTime: totalResponseTime / responseCount, 0 without a sample.
AverageResponseTime(total, count) ==
    IF count > 0 THEN [num |-> total, den |-> count] ELSE [num |-> 0, den |-> 1]

\* The sum over the samples of (time - avg)^2, scaled by count^2.
RECURSIVE SumSquares(_, _, _)
SumSquares(times, total, count) ==
    IF times = <<>> THEN 0
    ELSE (count * Head(times) - total) * (count * Head(times) - total)
             + SumSquares(Tail(times), total, count)

\* StandardDeviation dividing without the early return for a single sample.
StandardDeviation_NoGuard(times, total, count) ==
    IF Len(times) = 0 THEN [num |-> 0, den |-> 1]
    ELSE [num |-> SumSquares(times, total, count),
          den |-> count * count * (Len(times) - 1)]

\* StandardDeviation: 0 for at most one sample, otherwise the square root of
\* sum / (n - 1); the fraction returned here is the value under the root.
StandardDeviation(times, total, count) ==
    IF Len(times) <= 1 THEN [num |-> 0, den |-> 1]
    ELSE [num |-> SumSquares(times, total, count),
          den |-> count * count * (Len(times) - 1)]

\* The percentiles asked for: those of the reports and thresholds, the ends
\* of the range and values outside it.
Percentiles == {0 - 10, 0, 1, 25, 50, 75, 90, 95, 99, 100, 110}

Latencies == 0 .. MaxLatency

LatInit ==
    /\ RunnerIdle
    /\ stats = NewStats
    /\ selector = <<>>
    /\ picked = <<>>
    /\ responseTimes = <<>>
    /\ totalResponseTime = 0
    /\ query = <<>>
    /\ requestsPerSecond = 0
    /\ thresholds = <<>>
    /\ results = <<>>
    /\ executor = <<>>
    /\ UnitIdle

\* Stats.AddResponseTime(v).
LatAddResponseTime ==
    /\ Len(responseTimes) < MaxSamples
    /\ \E v \in Latencies :
          /\ responseTimes' = Append(responseTimes, v)
          /\ totalResponseTime' = totalResponseTime + v
    /\ stats' = AddResponseTime(stats)
    /\ UNCHANGED <<runnerVars, selector, picked, query, requestsPerSecond,
                   thresholds, results, executor,
                   unitVars>>

\* One call of Stats.GetLatencyPercentile.
LatQuery ==
    /\ \E p \in Percentiles :
          query' = [percentile |-> p,
                    value |-> GetLatencyPercentile(responseTimes, p)]
    /\ UNCHANGED <<runnerVars, stats, selector, picked, responseTimes,
                   totalResponseTime, requestsPerSecond, thresholds, results, executor,
                   unitVars>>

LatNext == LatAddResponseTime \/ LatQuery

LatSpec == LatInit /\ [][LatNext]_vars

(* ---------------------------- Stats: percentile index ------------------ *)

\* The most samples recorded.
MaxCount == 25

\* The percentiles asked for: every integer of the range and one beyond
\* each end.
PercentileArgs == (0 - 1) .. 101

PctInit == LatInit

\* Stats.AddResponseTime(v) during the run, before the report asks for a
\* percentile; the samples arrive in descending order.
PctAddResponseTime ==
    /\ query = <<>>
    /\ Len(responseTimes) < MaxCount
    /\ LET v == MaxCount - Len(responseTimes)
       IN  /\ responseTimes' = Append(responseTimes, v)
           /\ totalResponseTime' = totalResponseTime + v
    /\ stats' = AddResponseTime(stats)
    /\ UNCHANGED <<runnerVars, selector, picked, query, requestsPerSecond,
                   thresholds, results, executor,
                   unitVars>>

\* One call of Stats.GetLatencyPercentile.
PctQuery ==
    /\ \E p \in PercentileArgs :
          query' = [percentile |-> p,
                    value |-> GetLatencyPercentile(responseTimes, p)]
    /\ UNCHANGED <<runnerVars, stats, selector, picked, responseTimes,
                   totalResponseTime, requestsPerSecond, thresholds, results, executor,
                   unitVars>>

PctNext == PctAddResponseTime \/ PctQuery

PctSpec == PctInit /\ [][PctNext]_vars

(* ---------------------------- EvaluateThresholds ----------------------- *)

\* The latency strings of a ThresholdConfig: unset, not a duration, 1us.
LatencyStrings == {"", "abc", "1us"}

\* config.ParseLatency: (0, nil) for "", an error for a string that
\* time.ParseDuration rejects, the microseconds of the duration otherwise.
ParseLatency(latencyStr) ==
    CASE latencyStr = ""    -> [micros |-> 0, err |-> FALSE]
      [] latencyStr = "1us" -> [micros |-> 1, err |-> FALSE]
      [] latencyStr = "1ms" -> [micros |-> 1000, err |-> FALSE]
      [] OTHER              -> [micros |-> 0, err |-> TRUE]

\* The rates are held in percent: MaxErrorRate = 1 stands for 0.01. The
\* ThresholdConfig values tried: unset, negative, and set.
ThresholdConfigs ==
    [MaxErrorRate         : {0 - 1, 0, 1, 50},
     MaxAvgLatency        : LatencyStrings,
     MaxP50Latency        : {"", "1us"},
     MaxP75Latency        : {"", "1us"},
     MaxP90Latency        : {"", "1us"},
     MaxP99Latency        : LatencyStrings,
     MinRequestsPerSecond : {0, 1},
     MaxRequestsPerSecond : {0, 1}]

\* ThresholdConfig.HasThresholds.
HasThresholds(t) ==
    \/ t.MaxErrorRate > 0
    \/ t.MaxAvgLatency # ""
    \/ t.MaxP50Latency # ""
    \/ t.MaxP75Latency # ""
    \/ t.MaxP90Latency # ""
    \/ t.MaxP99Latency # ""
    \/ t.MinRequestsPerSecond > 0
    \/ t.MaxRequestsPerSecond > 0

\* The Stats fields EvaluateThresholds reads.
StatsView ==
    [SuccessCount      |-> stats.SuccessCount,
     FailureCount      |-> stats.FailureCount,
     responseCount     |-> stats.responseCount,
     responseTimes     |-> responseTimes,
     totalResponseTime |-> totalResponseTime,
     RequestsPerSecond |-> requestsPerSecond]

\* checkErrorRate comparing with < instead of <=.
checkErrorRate_Strict(s, maxErrorRate) ==
    LET totalRequests == s.SuccessCount + s.FailureCount
    IN  [Name   |-> "Max Error Rate",
         Passed |-> IF totalRequests > 0
                    THEN s.FailureCount * 100 < maxErrorRate * totalRequests
                    ELSE 0 < maxErrorRate,
         err    |-> FALSE]

\* checkErrorRate: FailureCount / (SuccessCount + FailureCount) <= maxErrorRate,
\* the rate being 0 without requests (both sides multiplied by 100 * total).
checkErrorRate(s, maxErrorRate) ==
    LET totalRequests == s.SuccessCount + s.FailureCount
    IN  [Name   |-> "Max Error Rate",
         Passed |-> IF totalRequests > 0
                    THEN s.FailureCount * 100 <= maxErrorRate * totalRequests
                    ELSE 0 <= maxErrorRate,
         err    |-> FALSE]

\* checkAvgLatency: int64(AverageResponseTime()) <= ParseLatency(max).
checkAvgLatency(s, maxLatencyStr) ==
    LET max == ParseLatency(maxLatencyStr)
        avg == AverageResponseTime(s.totalResponseTime, s.responseCount)
    IN  [Name   |-> "Max Avg Latency",
         Passed |-> ~max.err /\ (avg.num \div avg.den) <= max.micros,
         err    |-> max.err]

\* checkPercentileLatency: GetLatencyPercentile(p) <= ParseLatency(max).
checkPercentileLatency(s, percentile, maxLatencyStr) ==
    LET max == ParseLatency(maxLatencyStr)
    IN  [Name   |-> CASE percentile = 50 -> "Max P50 Latency"
                      [] percentile = 75 -> "Max P75 Latency"
                      [] percentile = 90 -> "Max P90 Latency"
                      [] OTHER           -> "Max P99 Latency",
         Passed |-> ~max.err
                    /\ GetLatencyPercentile(s.responseTimes, percentile) <= max.micros,
         err    |-> max.err]

\* checkMinRPS.
checkMinRPS(s, minRPS) ==
    [Name |-> "Min Requests/sec", Passed |-> s.RequestsPerSecond >= minRPS,
     err |-> FALSE]

\* checkMaxRPS.
checkMaxRPS(s, maxRPS) ==
    [Name |-> "Max Requests/sec", Passed |-> s.RequestsPerSecond <= maxRPS,
     err |-> FALSE]

\* The criteria in the order EvaluateThresholds goes through them: whether
\* the guard of the criterion holds, and what its check returns.
Criteria(s, t) ==
    << [on |-> t.MaxErrorRate > 0,  check |-> checkErrorRate(s, t.MaxErrorRate)],
       [on |-> t.MaxAvgLatency # "", check |-> checkAvgLatency(s, t.MaxAvgLatency)],
       [on |-> t.MaxP50Latency # "", check |-> checkPercentileLatency(s, 50, t.MaxP50Latency)],
       [on |-> t.MaxP75Latency # "", check |-> checkPercentileLatency(s, 75, t.MaxP75Latency)],
       [on |-> t.MaxP90Latency # "", check |-> checkPercentileLatency(s, 90, t.MaxP90Latency)],
       [on |-> t.MaxP99Latency # "", check |-> checkPercentileLatency(s, 99, t.MaxP99Latency)],
       [on |-> t.MinRequestsPerSecond > 0, check |-> checkMinRPS(s, t.MinRequestsPerSecond)],
       [on |-> t.MaxRequestsPerSecond > 0, check |-> checkMaxRPS(s, t.MaxRequestsPerSecond)] >>

\* The body of EvaluateThresholds from criterion i on: a criterion whose
\* guard holds appends its result and clears Passed when it failed; a check
\* that returns an error ends the evaluation with (nil, err).
RECURSIVE EvaluateFrom(_, _, _)
EvaluateFrom(criteria, i, acc) ==
    IF i > Len(criteria) THEN acc
    ELSE IF ~criteria[i].on THEN EvaluateFrom(criteria, i + 1, acc)
    ELSE IF criteria[i].check.err
         THEN [Results |-> <<>>, Passed |-> FALSE, err |-> TRUE]
    ELSE EvaluateFrom(criteria, i + 1,
            [Results |-> Append(acc.Results,
                                [Name   |-> criteria[i].check.Name,
                                 Passed |-> criteria[i].check.Passed]),
             Passed  |-> acc.Passed /\ criteria[i].check.Passed,
             err     |-> FALSE])

\* EvaluateThresholds keeping Passed true whatever the checks return.
EvaluateThresholds_AlwaysPassed(s, t) ==
    LET r == EvaluateFrom(Criteria(s, t), 1,
                          [Results |-> <<>>, Passed |-> TRUE, err |-> FALSE])
    IN  [r EXCEPT !.Passed = ~r.err]

\* EvaluateThresholds evaluating every criterion, configured or not.
EvaluateThresholds_NoSkip(s, t) ==
    EvaluateFrom([i \in 1 .. 8 |-> [Criteria(s, t)[i] EXCEPT !.on = TRUE]], 1,
                 [Results |-> <<>>, Passed |-> TRUE, err |-> FALSE])

\* EvaluateThresholds(stats, thresholds).
EvaluateThresholds(s, t) ==
    IF ~HasThresholds(t)
    THEN [Results |-> <<>>, Passed |-> TRUE, err |-> FALSE]
    ELSE EvaluateFrom(Criteria(s, t), 1,
                      [Results |-> <<>>, Passed |-> TRUE, err |-> FALSE])

\* The receiver's samples after a percentile query that sorts them in place.
AfterGetLatencyPercentile_InPlace(times) == SortFloat64s(times)

\* The receiver's samples after GetLatencyPercentile: it sorts a copy.
AfterGetLatencyPercentile(times) == times

\* Whether the evaluation reaches a call of GetLatencyPercentile.
QueriesPercentile(t) ==
    /\ ~ParseLatency(t.MaxAvgLatency).err
    /\ \/ t.MaxP50Latency # ""
       \/ t.MaxP75Latency # ""
       \/ t.MaxP90Latency # ""
       \/ (t.MaxP99Latency # "" /\ ~ParseLatency(t.MaxP99Latency).err)

\* The (success, failure) counts of the finished runs evaluated.
ThCounts == {<<0, 0>>, <<1, 0>>, <<0, 1>>, <<1, 1>>, <<98, 2>>}

\* Their latency samples, in recording order.
ThSamples ==
    {<<>>} \cup {<<a>> : a \in {0, MaxLatency}}
           \cup {<<a, b>> : a \in {0, MaxLatency}, b \in {0, MaxLatency}}

ThInit ==
    /\ RunnerIdle
    /\ selector = <<>>
    /\ picked = <<>>
    /\ query = <<>>
    /\ responseTimes \in ThSamples
    /\ totalResponseTime = Cumulative(responseTimes, Len(responseTimes))
    /\ \E c \in ThCounts :
          stats = [NewStats EXCEPT !.SuccessCount = c[1], !.FailureCount = c[2],
                                   !.TotalRequests = c[1] + c[2],
                                   !.responseCount = Len(responseTimes),
                                   !.stamped = TRUE]
    /\ requestsPerSecond \in 0 .. 2
    /\ thresholds \in ThresholdConfigs
    /\ results = <<>>
    /\ executor = <<>>
    /\ UnitIdle

\* One call of EvaluateThresholds on the finished Stats.
ThEvaluate ==
    /\ results = <<>>
    /\ results' = EvaluateThresholds(StatsView, thresholds)
    /\ responseTimes' = IF QueriesPercentile(thresholds)
                        THEN AfterGetLatencyPercentile(responseTimes)
                        ELSE responseTimes
    /\ UNCHANGED <<runnerVars, stats, selector, picked, totalResponseTime,
                   query, requestsPerSecond, thresholds, executor,
                   unitVars>>

ThNext == ThEvaluate

ThSpec == ThInit /\ [][ThNext]_vars

(* ---------------------------- ScenarioExecutor ------------------------- *)

\* StepResult.Success as executeStep returns it: false after a construction,
\* transport or body-read error and after a failed validation, cleared for a
\* status outside 2xx, true otherwise.
StepSuccess(o) == o = "ok"

\* ExecuteScenario leaving its loop at the first failed step.
ContinueAfter_BreakOnFailure(stepResult) == stepResult.Success

\* ExecuteScenario after a step: a failed step clears result.Success and the
\* loop goes on to the next step.
ContinueAfter(stepResult) == TRUE

\* The StepResult of step k ending with outcome o.
StepResult(k, o) ==
    [StepName |-> Steps[k], outcome |-> o, Success |-> StepSuccess(o)]

\* How client.Do, the body read and the validation of one step can end.
DoOutcomes ==
    {"ok", "transport", "read", "http", "validation"}
        \cup (IF CtxDone THEN {"canceled"} ELSE {})

\* What the harness leaves alone.
scnFrame == <<cfg, runPc, interrupted, completed, semaphore, tokens, pc, iter,
              step, reqConfig, ticks, granted, caller, selector, picked,
              responseTimes, totalResponseTime, query, requestsPerSecond,
              thresholds, results, activeWorkers, unitVars>>

ScnInit ==
    /\ RunnerIdle
    /\ UnitIdle
    /\ stats = NewStats
    /\ selector = <<>>
    /\ picked = <<>>
    /\ responseTimes = <<>>
    /\ totalResponseTime = 0
    /\ query = <<>>
    /\ requestsPerSecond = 0
    /\ thresholds = <<>>
    /\ results = <<>>
    /\ executor = [pc |-> "idle", i |-> 0, StepResults |-> <<>>, runs |-> 0,
                   Success |-> TRUE]

\* A call of ExecuteScenario(ctx): Success true, an empty StepResults, the
\* first step next.
ScnExecuteScenario ==
    /\ executor.pc \in {"idle", "returned"}
    /\ executor.runs < MaxIterations
    /\ executor' = [pc |-> "loop", i |-> 1, StepResults |-> <<>>,
                    runs |-> executor.runs, Success |-> TRUE]
    /\ UNCHANGED <<scnFrame, cancelled, stats, reqStats, aborted>>

\* result.Success taking the flag of the step just run, whatever came before.
MergeSuccess_LastStep(success, stepResult) == stepResult.Success

\* result.Success after a step: a failed step clears it, nothing sets it again.
MergeSuccess(success, stepResult) ==
    IF ~stepResult.Success THEN FALSE ELSE success

\* executeStep returned stepResult for step i: it is appended, a failure
\* clears result.Success, and the loop goes on unless that was the last step.
ScnAppend(stepResult) ==
    LET appended == Append(executor.StepResults, stepResult)
        success == MergeSuccess(executor.Success, stepResult)
    IN  executor' =
            IF executor.i >= NumSteps \/ ~ContinueAfter(stepResult)
            THEN [executor EXCEPT !.pc = "returned", !.StepResults = appended,
                                  !.Success = success, !.runs = @ + 1]
            ELSE [executor EXCEPT !.pc = "loop", !.StepResults = appended,
                                  !.Success = success, !.i = @ + 1]

\* The head of the step loop and executeStep up to client.Do: a cancelled
\* context clears result.Success and returns the result with the steps run so
\* far; a request that cannot be built is recorded and the step is over.
ScnBeginStep ==
    /\ executor.pc = "loop"
    /\ IF CtxDone
       THEN /\ executor' = [executor EXCEPT !.pc = "returned",
                                             !.Success = FALSE, !.runs = @ + 1]
            /\ UNCHANGED <<stats, reqStats>>
       ELSE \/ /\ stats' = RecordStep(stats, "construct")
               /\ reqStats' = RecordStepEntry(reqStats, Steps[executor.i], "construct")
               /\ ScnAppend(StepResult(executor.i, "construct"))
            \/ /\ executor' = [executor EXCEPT !.pc = "do"]
               /\ UNCHANGED <<stats, reqStats>>
    /\ UNCHANGED <<scnFrame, cancelled, aborted>>

\* client.Do returns and executeStep records the step.
ScnFinishStep ==
    /\ executor.pc = "do"
    /\ \E o \in DoOutcomes :
          /\ stats' = RecordStep(stats, o)
          /\ reqStats' = RecordStepEntry(reqStats, Steps[executor.i], o)
          /\ aborted' = aborted + (IF o = "canceled" THEN 1 ELSE 0)
          /\ ScnAppend(StepResult(executor.i, o))
    /\ UNCHANGED <<scnFrame, cancelled>>

\* The context given to ExecuteScenario is cancelled.
ScnCancel ==
    /\ ~cancelled
    /\ cancelled' = TRUE
    /\ UNCHANGED <<scnFrame, executor, stats, reqStats, aborted>>

ScnNext == ScnExecuteScenario \/ ScnBeginStep \/ ScnFinishStep \/ ScnCancel

ScnSpec == ScnInit /\ [][ScnNext]_vars

(* ---------------------------- scenario variables -------------------- *)

\* The names of the scenario variables.
VarNames == {"authToken", "user"}

\* step.Extract of each step: the names it extracts from its response.
Extract == <<{"authToken"}, {"authToken", "user"}>>

\* The occurrences of {{$iteration}} in the URL, headers and body of each step.
Placeholders == <<1, 2>>

\* The empty string.
Empty == [from |-> "", worker |-> 0, run |-> 0, step |-> 0]

\* The value of a variable set in the configuration file.
ConfigValue == [from |-> "config", worker |-> 0, run |-> 0, step |-> 0]

\* The value the response to step k of run r of worker w carries: the target
\* answers every request with a value of its own.
ResponseValue(w, r, k) == [from |-> "response", worker |-> w, run |-> r, step |-> k]

\* What extractValue can return for the names of step k: the value in the
\* response, or "" when the path, header or pattern finds nothing.
Responses(w, r, k) ==
    [Extract[k] -> {ResponseValue(w, r, k), Empty}]

\* executeStep keeping every extracted value, the empty ones too.
ExtractedVars_WithEmpty(response) == response

\* executeStep: result.ExtractedVars holds the extracted values that are not "".
ExtractedVars(response) ==
    [n \in {m \in DOMAIN response : response[m] # Empty} |-> response[n]]

\* for k, v := range stepResult.ExtractedVars { result.Variables[k] = v }
Merge(variables, extracted) ==
    [n \in DOMAIN variables \cup DOMAIN extracted |->
        IF n \in DOMAIN extracted THEN extracted[n] ELSE variables[n]]

\* The place of e.config.Variables among the variable maps in memory.
ConfigRef == 0

\* The places a variable map is kept at: e.config.Variables, and one map per
\* worker for the instance it is running.
Refs == {ConfigRef} \cup Workers

\* copyVariables handing back the map it was given.
copyVariables_SameMap(maps, src, dst) == [maps |-> maps, ref |-> src]

\* copyVariables(src): a new map dst with the entries of src.
copyVariables(maps, src, dst) ==
    [maps |-> [maps EXCEPT ![dst] = maps[src]], ref |-> dst]

\* atomic.AddInt64 with its store lost.
AddInt64_LostStore(counter, delta) ==
    [counter |-> counter, value |-> counter + delta]

\* atomic.AddInt64(&counter, delta): the counter after the addition, and the
\* value returned, which is the new value.
AddInt64(counter, delta) ==
    [counter |-> counter + delta, value |-> counter + delta]

\* The instances a worker runs one after the other.
MaxRuns == MaxIterations + 1

\* The configurations tried: no variable, and authToken set.
ConfigVariables == {<<>>, [n \in {"authToken"} |-> ConfigValue]}

NoInstance ==
    [pc |-> "idle", run |-> 0, i |-> 0, left |-> 0, Variables |-> ConfigRef,
     used |-> <<>>, responses |-> <<>>]

InstInit ==
    /\ RunnerIdle
    /\ PartIdle
    /\ stats = NewStats
    /\ selector = <<>>
    /\ picked = <<>>
    /\ responseTimes = <<>>
    /\ totalResponseTime = 0
    /\ query = <<>>
    /\ requestsPerSecond = 0
    /\ thresholds = <<>>
    /\ results = <<>>
    /\ executor = <<>>
    /\ \E c \in ConfigVariables : variableMaps = [r \in Refs |-> IF r = ConfigRef THEN c ELSE <<>>]
    /\ instances = [w \in Workers |-> NoInstance]
    /\ iterationCounter = 0
    /\ iterations = <<>>
    /\ goroutines = <<>>
    /\ invocation = <<>>
    /\ rampUp = <<>>

\* What the harness leaves alone.
instFrame == <<runnerVars, stats, selector, picked, responseTimes,
               totalResponseTime, query, requestsPerSecond, thresholds,
               results, executor, goroutines, invocation, rampUp,
               partVars>>

\* Worker w calls ExecuteScenario: result.Variables is copyVariables of the
\* configuration's map, and the first step is next.
InstExecuteScenario(w) ==
    /\ instances[w].pc \in {"idle", "returned"}
    /\ instances[w].run < MaxRuns
    /\ LET c == copyVariables(variableMaps, ConfigRef, w)
       IN  /\ variableMaps' = c.maps
           /\ instances' = [instances EXCEPT ![w] =
                  [pc |-> "resolve", run |-> @.run + 1, i |-> 1,
                   left |-> Placeholders[1], Variables |-> c.ref,
                   used |-> <<>>, responses |-> <<>>]]
    /\ UNCHANGED <<instFrame, iterationCounter, iterations>>

\* resolveDynamicFunctions replaces one {{$iteration}} of the step.
InstSubstitute(w) ==
    /\ instances[w].pc = "resolve"
    /\ instances[w].left > 0
    /\ LET a == AddInt64(iterationCounter, 1)
       IN  /\ iterationCounter' = a.counter
           /\ iterations' = Append(iterations, a.value)
    /\ instances' = [instances EXCEPT ![w].left = @ - 1]
    /\ UNCHANGED <<instFrame, variableMaps>>

\* resolveVariables replaces the {{name}} placeholders of the step from the
\* map executeStep was given, and the request is sent.
InstResolve(w) ==
    /\ instances[w].pc = "resolve"
    /\ instances[w].left = 0
    /\ instances' = [instances EXCEPT
          ![w].pc = "do",
          ![w].used = Append(@, variableMaps[instances[w].Variables])]
    /\ UNCHANGED <<instFrame, variableMaps, iterationCounter, iterations>>

\* The step ends: executeStep extracts from the response (nothing when the
\* step failed before a response was read) and ExecuteScenario merges the
\* extracted values into result.Variables; the next step, or the return.
InstFinishStep(w) ==
    /\ instances[w].pc = "do"
    /\ \E response \in Responses(w, instances[w].run, instances[w].i) :
          /\ variableMaps' = [variableMaps EXCEPT ![instances[w].Variables] =
                                 Merge(@, ExtractedVars(response))]
          /\ instances' = [instances EXCEPT ![w] =
                IF @.i >= NumSteps
                THEN [@ EXCEPT !.pc = "returned",
                               !.responses = Append(@, response)]
                ELSE [@ EXCEPT !.pc = "resolve", !.i = @ + 1,
                               !.left = Placeholders[instances[w].i + 1],
                               !.responses = Append(@, response)]]
    /\ UNCHANGED <<instFrame, iterationCounter, iterations>>

InstNext ==
    \E w \in Workers :
        \/ InstExecuteScenario(w)
        \/ InstSubstitute(w)
        \/ InstResolve(w)
        \/ InstFinishStep(w)

InstSpec == InstInit /\ [][InstNext]_vars

(* ---------------------------- the goroutines of a run ---------------- *)

\* The harness follows Run / RunScenario and the goroutines it starts: the
\* workers, the rate sampler of startProgressTracking, the duration timer of
\* createBenchmarkContext. goroutines.requests counts the writes of the workers
\* to Stats, goroutines.requestRates the calls of Stats.AddRequestRate,
\* goroutines.stamped the times the totals were stamped.

joinFrame == <<runnerVars, stats, selector, picked, responseTimes,
               totalResponseTime, query, requestsPerSecond, thresholds,
               results, executor, variableMaps, instances, iterationCounter,
               iterations, invocation, rampUp,
               partVars>>

JoinInit ==
    /\ RunnerIdle
    /\ PartIdle
    /\ stats = NewStats
    /\ selector = <<>>
    /\ picked = <<>>
    /\ responseTimes = <<>>
    /\ totalResponseTime = 0
    /\ query = <<>>
    /\ requestsPerSecond = 0
    /\ thresholds = <<>>
    /\ results = <<>>
    /\ executor = <<>>
    /\ variableMaps = <<>>
    /\ instances = <<>>
    /\ iterationCounter = 0
    /\ iterations = <<>>
    /\ invocation = <<>>
    /\ rampUp = <<>>
    /\ \E d \in BOOLEAN :
          goroutines = [duration |-> d,
                        ctx |-> FALSE,
                        benchCtx |-> FALSE,
                        worker |-> [w \in Workers |-> "top"],
                        done |-> [w \in Workers |-> 0],
                        sampler |-> "select",
                        timer |-> IF d THEN "select" ELSE "none",
                        run |-> "wait",
                        requests |-> 0,
                        requestRates |-> 0,
                        stamped |-> 0]

\* The items all workers completed (completedRequests / completedScenarios).
JoinCompleted(g) ==
    LET RECURSIVE Sum(_)
        Sum(n) == IF n = 0 THEN 0 ELSE g.done[n] + Sum(n - 1)
    IN  Sum(ConcurrentUsers)

\* The head of a worker's loop: with the context done, or the fixed count of
\* the worker run, the worker returns; otherwise it starts an item.
JoinLoopTop(w) ==
    /\ goroutines.worker[w] = "top"
    /\ IF goroutines.benchCtx
          \/ (~goroutines.duration /\ goroutines.done[w] >= RequestsPerUser)
       THEN goroutines' = [goroutines EXCEPT !.worker[w] = "exited"]
       ELSE /\ goroutines.duration => goroutines.done[w] < MaxIterations
            /\ goroutines' = [goroutines EXCEPT !.worker[w] = "do"]
    /\ UNCHANGED <<joinFrame>>

\* The item ends: the worker writes its outcome to Stats and counts it; in
\* fixed-count mode the worker that reaches the total cancels and returns.
JoinItemDone(w) ==
    /\ goroutines.worker[w] = "do"
    /\ LET g == [goroutines EXCEPT !.requests = @ + 1, !.done[w] = @ + 1]
       IN  goroutines' =
              IF ~g.duration /\ ReachedTotal(JoinCompleted(g))
              THEN [g EXCEPT !.worker[w] = "exited", !.benchCtx = TRUE]
              ELSE [g EXCEPT !.worker[w] = "top"]
    /\ UNCHANGED <<joinFrame>>

\* The select of the rate sampler: it returns when ctx.Done() is chosen and
\* goes on to sample when the ticker is chosen; Go chooses among the ready
\* cases, and the ticker is ready every 100 ms.
JoinSamplerSelect ==
    /\ goroutines.sampler = "select"
    /\ \/ /\ goroutines.benchCtx
          /\ goroutines' = [goroutines EXCEPT !.sampler = "returned"]
       \/ /\ goroutines.requestRates < MaxTicks
          /\ goroutines' = [goroutines EXCEPT !.sampler = "sample"]
    /\ UNCHANGED <<joinFrame>>

\* The tick of the rate sampler: r.Stats.AddRequestRate(currentRate).
JoinAddRequestRate ==
    /\ goroutines.sampler = "sample"
    /\ goroutines' = [goroutines EXCEPT !.sampler = "select",
                                        !.requestRates = @ + 1]
    /\ UNCHANGED <<joinFrame>>

\* The goroutine of createBenchmarkContext: the timer fires, or the caller's
\* context is done; either way it cancels the benchmark context.
JoinTimer ==
    /\ goroutines.timer = "select"
    /\ goroutines' = [goroutines EXCEPT !.timer = "returned", !.benchCtx = TRUE]
    /\ UNCHANGED <<joinFrame>>

\* The caller cancels the context given to Run; the benchmark context is its
\* child.
JoinInterrupt ==
    /\ ~goroutines.ctx
    /\ goroutines' = [goroutines EXCEPT !.ctx = TRUE, !.benchCtx = TRUE]
    /\ UNCHANGED <<joinFrame>>

\* wg.Wait() returns and Run stamps TotalRequests, TotalDuration and
\* RequestsPerSecond.
JoinFinalize ==
    /\ goroutines.run = "wait"
    /\ \A w \in Workers : goroutines.worker[w] = "exited"
    /\ goroutines' = [goroutines EXCEPT !.run = "finalized", !.stamped = @ + 1]
    /\ UNCHANGED <<joinFrame>>

\* Run returns r.Stats; its deferred calls run, benchCancel among them in
\* fixed-count mode.
JoinReturn ==
    /\ goroutines.run = "finalized"
    /\ goroutines' = [goroutines EXCEPT
          !.run = "returned",
          !.benchCtx = (@ \/ ~goroutines.duration)]
    /\ UNCHANGED <<joinFrame>>

JoinNext ==
    \/ \E w \in Workers : JoinLoopTop(w) \/ JoinItemDone(w)
    \/ JoinSamplerSelect
    \/ JoinAddRequestRate
    \/ JoinTimer
    \/ JoinInterrupt
    \/ JoinFinalize
    \/ JoinReturn

JoinSpec == JoinInit /\ [][JoinNext]_vars

(* ---------------------------- main ----------------------------------- *)

\* The strings tried for Settings.Duration and Settings.Timeout: unset, whole
\* seconds, a fraction of a second more, and two that time.ParseDuration
\* rejects (no digits; no unit).
DurationStrings == {"", "10s", "1500ms", "abc", "10"}

\* time.ParseDuration, in milliseconds.
ParseDuration(str) ==
    CASE str = "10s"    -> [millis |-> 10000, err |-> FALSE]
      [] str = "1500ms" -> [millis |-> 1500, err |-> FALSE]
      [] OTHER          -> [millis |-> 0, err |-> TRUE]

\* int(dur.Seconds()): the whole seconds of a duration.
Seconds(d) == d.millis \div 1000

\* Config.GetDurationSeconds: (0, nil) when unset, an error when the string
\* does not parse.
GetDurationSeconds(c) ==
    IF c.Duration = "" THEN [sec |-> 0, err |-> FALSE]
    ELSE IF ParseDuration(c.Duration).err THEN [sec |-> 0, err |-> TRUE]
    ELSE [sec |-> Seconds(ParseDuration(c.Duration)), err |-> FALSE]

\* Config.GetTimeoutSeconds: 30 when unset and when the string does not parse.
GetTimeoutSeconds(c) ==
    IF c.Timeout = "" THEN 30
    ELSE IF ParseDuration(c.Timeout).err THEN 30
    ELSE Seconds(ParseDuration(c.Timeout))

\* The values of the -timeout flag tried: its default and another.
FlagTimeouts == {30, 5}

mainFrame == <<runnerVars, stats, selector, picked, responseTimes,
               totalResponseTime, query, requestsPerSecond, thresholds,
               results, executor, variableMaps, instances, iterationCounter,
               iterations, goroutines, rampUp,
               partVars>>

\* main after loadConfiguration.
MainInit ==
    /\ RunnerIdle
    /\ PartIdle
    /\ stats = NewStats
    /\ selector = <<>>
    /\ picked = <<>>
    /\ responseTimes = <<>>
    /\ totalResponseTime = 0
    /\ query = <<>>
    /\ requestsPerSecond = 0
    /\ thresholds = <<>>
    /\ results = <<>>
    /\ executor = <<>>
    /\ variableMaps = <<>>
    /\ instances = <<>>
    /\ iterationCounter = 0
    /\ iterations = <<>>
    /\ goroutines = <<>>
    /\ rampUp = <<>>
    /\ \E d \in DurationStrings, t \in DurationStrings, f \in FlagTimeouts :
          invocation = [Duration |-> d, Timeout |-> t, flagTimeout |-> f,
                        pc |-> "loaded", durationSec |-> 0, timeoutSec |-> 0]

\* durationSec, err := cfg.GetDurationSeconds(); an error is fatal.
MainGetDuration ==
    /\ invocation.pc = "loaded"
    /\ LET d == GetDurationSeconds(invocation)
       IN  invocation' =
              IF d.err THEN [invocation EXCEPT !.pc = "exitWithError"]
              ELSE [invocation EXCEPT !.pc = "duration", !.durationSec = d.sec]
    /\ UNCHANGED <<mainFrame>>

\* timeoutSec := cfg.GetTimeoutSeconds(), overridden by a -timeout flag that
\* is not at its default.
MainGetTimeout ==
    /\ invocation.pc = "duration"
    /\ invocation' = [invocation EXCEPT
          !.pc = "timeout",
          !.timeoutSec = IF invocation.flagTimeout # 30
                         THEN invocation.flagTimeout
                         ELSE GetTimeoutSeconds(invocation)]
    /\ UNCHANGED <<mainFrame>>

\* runner.Run(ctx): the workers start.
MainRun ==
    /\ invocation.pc = "timeout"
    /\ invocation' = [invocation EXCEPT !.pc = "running"]
    /\ UNCHANGED <<mainFrame>>

MainNext == MainGetDuration \/ MainGetTimeout \/ MainRun

MainSpec == MainInit /\ [][MainNext]_vars

(* ---------------------------- ramp-up -------------------------------- *)

\* time.Second, with durations counted in milliseconds.
Second == 1000

\* startWorkers dividing the ramp-up among all users.
rampUpDelay_PerUser(RampUpSec, users) ==
    IF RampUpSec > 0 /\ users > 1
    THEN (RampUpSec * Second) \div users
    ELSE 0

\* startWorkers / startScenarioWorkers: the ramp-up delay per worker.
rampUpDelay(RampUpSec, users) ==
    IF RampUpSec > 0 /\ users > 1
    THEN (RampUpSec * Second) \div (users - 1)
    ELSE 0

\* runWorker / runScenarioWorker: the time worker workerIndex waits before
\* its first action.
WorkerDelay(delay, workerIndex) ==
    IF delay > 0 /\ workerIndex > 0 THEN delay * workerIndex ELSE 0

rampFrame == <<runnerVars, stats, selector, picked, responseTimes,
               totalResponseTime, query, requestsPerSecond, thresholds,
               results, executor, variableMaps, instances, iterationCounter,
               iterations, goroutines, invocation,
               partVars>>

\* A Runner with its RampUpSec and Settings.ConcurrentUsers.
RampInit ==
    /\ RunnerIdle
    /\ PartIdle
    /\ stats = NewStats
    /\ selector = <<>>
    /\ picked = <<>>
    /\ responseTimes = <<>>
    /\ totalResponseTime = 0
    /\ query = <<>>
    /\ requestsPerSecond = 0
    /\ thresholds = <<>>
    /\ results = <<>>
    /\ executor = <<>>
    /\ variableMaps = <<>>
    /\ instances = <<>>
    /\ iterationCounter = 0
    /\ iterations = <<>>
    /\ goroutines = <<>>
    /\ invocation = <<>>
    /\ \E d \in 0 .. MaxRampUpSec, u \in 1 .. MaxUsers :
          rampUp = [RampUpSec |-> d, users |-> u, pc |-> "start",
                    rampUpDelay |-> 0, wait |-> <<>>]

\* startWorkers computes rampUpDelay and starts the workers.
RampStartWorkers ==
    /\ rampUp.pc = "start"
    /\ rampUp' = [rampUp EXCEPT
          !.pc = "started",
          !.rampUpDelay = rampUpDelay(rampUp.RampUpSec, rampUp.users)]
    /\ UNCHANGED <<rampFrame>>

\* Worker i reaches its ramp-up delay.
RampWorker(i) ==
    /\ rampUp.pc = "started"
    /\ i \notin DOMAIN rampUp.wait
    /\ rampUp' = [rampUp EXCEPT
          !.wait = [j \in DOMAIN rampUp.wait \cup {i} |->
                       IF j = i THEN WorkerDelay(rampUp.rampUpDelay, i)
                                ELSE rampUp.wait[j]]]
    /\ UNCHANGED <<rampFrame>>

RampNext ==
    \/ RampStartWorkers
    \/ \E i \in 0 .. MaxUsers - 1 : i < rampUp.users /\ RampWorker(i)

RampSpec == RampInit /\ [][RampNext]_vars

(* ---------------------------- per-endpoint statistics, concurrently -- *)

\* Each worker goroutine makes one update of the per-endpoint statistics:
\* Runner.updateRequestStats in request mode, the block at the end of
\* executeStep in scenario mode. Both call Stats.GetOrCreateRequestStats,
\* which runs under Stats.mutex, and then update the entry under its own
\* Mutex. Every lock, read, write and unlock is a step of its own.
\* endpoints.heap holds the RequestStats values allocated, a pointer being
\* an index into it (0 = nil); endpoints.RequestStats maps names to pointers.

\* The names of the requests / steps updated.
EndpointNames == {"A", "B"}

\* sync.Mutex.Lock returning whether or not the mutex is held.
CanLock_Always(m) == TRUE

\* sync.Mutex.Lock returns once the mutex is unlocked (0 = unlocked,
\* otherwise the goroutine holding it).
CanLock(m) == m = 0

\* &RequestStats{Name: name, URL: url, Method: method}
NewRequestStats(name) ==
    [Name |-> name, RequestCount |-> 0, SuccessCount |-> 0,
     FailureCount |-> 0, Mutex |-> 0]

\* The success / failure branch counting the successes only.
CountOutcome_SuccessOnly(entry, success) ==
    IF success THEN [entry EXCEPT !.SuccessCount = @ + 1] ELSE entry

\* if <success> { reqStats.SuccessCount++ } else { reqStats.FailureCount++ }
\* where <success> is a 2xx status in request mode, and result.Success with
\* a 2xx status in scenario mode.
CountOutcome(entry, success) ==
    IF success THEN [entry EXCEPT !.SuccessCount = @ + 1]
    ELSE [entry EXCEPT !.FailureCount = @ + 1]

EpInit ==
    /\ RunnerIdle
    /\ stats = NewStats
    /\ selector = <<>>
    /\ picked = <<>>
    /\ responseTimes = <<>>
    /\ totalResponseTime = 0
    /\ query = <<>>
    /\ requestsPerSecond = 0
    /\ thresholds = <<>>
    /\ results = <<>>
    /\ executor = <<>>
    /\ variableMaps = <<>>
    /\ instances = <<>>
    /\ iterationCounter = 0
    /\ iterations = <<>>
    /\ goroutines = <<>>
    /\ invocation = <<>>
    /\ rampUp = <<>>
    /\ endpoints = [mutex |-> 0, RequestStats |-> <<>>, heap |-> <<>>]
    /\ updaters = [w \in Workers |-> [pc |-> "idle", name |-> "", reqStats |-> 0]]
    /\ counters = <<>>
    /\ recorders = <<>>
    /\ resolved = <<>>
    /\ validation = <<>>
    /\ hdr = <<>>

\* What the harness leaves alone.
epFrame == <<runnerVars, stats, selector, picked, responseTimes,
             totalResponseTime, query, requestsPerSecond, thresholds,
             results, executor, variableMaps, instances, iterationCounter,
             iterations, goroutines, invocation, rampUp, counters, recorders,
             resolved, validation, hdr>>

\* Worker w calls GetOrCreateRequestStats(name, url, method).
EpCall(w) ==
    /\ updaters[w].pc = "idle"
    /\ \E name \in EndpointNames :
          updaters' = [updaters EXCEPT ![w] = [@ EXCEPT !.pc = "lock", !.name = name]]
    /\ UNCHANGED <<epFrame, endpoints>>

\* s.mutex.Lock()
EpLock(w) ==
    /\ updaters[w].pc = "lock"
    /\ CanLock(endpoints.mutex)
    /\ endpoints' = [endpoints EXCEPT !.mutex = w]
    /\ updaters' = [updaters EXCEPT ![w].pc = "lookup"]
    /\ UNCHANGED epFrame

\* if stats, ok := s.RequestStats[name]; ok { return stats }; otherwise a
\* new RequestStats is allocated.
EpLookup(w) ==
    /\ updaters[w].pc = "lookup"
    /\ IF updaters[w].name \in DOMAIN endpoints.RequestStats
       THEN /\ updaters' = [updaters EXCEPT
                   ![w].pc = "unlock",
                   ![w].reqStats = endpoints.RequestStats[updaters[w].name]]
            /\ UNCHANGED endpoints
       ELSE /\ endpoints' = [endpoints EXCEPT
                   !.heap = Append(@, NewRequestStats(updaters[w].name))]
            /\ updaters' = [updaters EXCEPT
                   ![w].pc = "store",
                   ![w].reqStats = Len(endpoints.heap) + 1]
    /\ UNCHANGED epFrame

\* s.RequestStats[name] = stats; return stats
EpStore(w) ==
    /\ updaters[w].pc = "store"
    /\ endpoints' = [endpoints EXCEPT
          !.RequestStats = [n \in DOMAIN @ \cup {updaters[w].name} |->
                               IF n = updaters[w].name THEN updaters[w].reqStats
                               ELSE @[n]]]
    /\ updaters' = [updaters EXCEPT ![w].pc = "unlock"]
    /\ UNCHANGED epFrame

\* defer s.mutex.Unlock(): GetOrCreateRequestStats has returned its entry.
EpUnlock(w) ==
    /\ updaters[w].pc = "unlock"
    /\ endpoints' = [endpoints EXCEPT !.mutex = 0]
    /\ updaters' = [updaters EXCEPT ![w].pc = "entrylock"]
    /\ UNCHANGED epFrame

\* reqStats.Mutex.Lock()
EpEntryLock(w) ==
    /\ updaters[w].pc = "entrylock"
    /\ CanLock(endpoints.heap[updaters[w].reqStats].Mutex)
    /\ endpoints' = [endpoints EXCEPT !.heap[updaters[w].reqStats].Mutex = w]
    /\ updaters' = [updaters EXCEPT ![w].pc = "count"]
    /\ UNCHANGED epFrame

\* reqStats.RequestCount++ (and TotalLatency += responseTime)
EpCount(w) ==
    /\ updaters[w].pc = "count"
    /\ endpoints' = [endpoints EXCEPT
          !.heap[updaters[w].reqStats].RequestCount = @ + 1]
    /\ updaters' = [updaters EXCEPT ![w].pc = "outcome"]
    /\ UNCHANGED epFrame

\* The success / failure branch, for either outcome of the attempt.
EpOutcome(w) ==
    /\ updaters[w].pc = "outcome"
    /\ \E success \in BOOLEAN :
          endpoints' = [endpoints EXCEPT
              !.heap[updaters[w].reqStats] = CountOutcome(@, success)]
    /\ updaters' = [updaters EXCEPT ![w].pc = "entryunlock"]
    /\ UNCHANGED epFrame

\* reqStats.Mutex.Unlock()
EpEntryUnlock(w) ==
    /\ updaters[w].pc = "entryunlock"
    /\ endpoints' = [endpoints EXCEPT !.heap[updaters[w].reqStats].Mutex = 0]
    /\ updaters' = [updaters EXCEPT ![w].pc = "done"]
    /\ UNCHANGED epFrame

EpNext ==
    \E w \in Workers :
        \/ EpCall(w)
        \/ EpLock(w)
        \/ EpLookup(w)
        \/ EpStore(w)
        \/ EpUnlock(w)
        \/ EpEntryLock(w)
        \/ EpCount(w)
        \/ EpOutcome(w)
        \/ EpEntryUnlock(w)

EpSpec == EpInit /\ [][EpNext]_vars

(* ---------------------------- recording request outcomes, concurrently *)

\* Each worker goroutine runs Runner.processRequest once, every call it makes
\* on Stats being a step of its own: the atomic additions are single steps,
\* AddResponseTime is a lock, a read of the latency record, a write of it and
\* an unlock. counters.calls counts the calls that have returned; the error
\* table and the per-endpoint entries, which processRequest also updates,
\* are followed in the Runner and in the per-endpoint harness.

\* The status codes of the responses: one of each class, and one outside.
StatusCodes == {100, 200, 302, 404, 500, 600}

\* len(respBody) of the responses.
BodyLengths == {1, 2}

\* The response times measured, in microseconds.
ResponseTimes == {1, 2}

\* math.MaxInt64, the minResponseTime of a Stats without samples.
MaxInt64 == 2147483647

\* AddStatusCode leaving out the codes that belong to no HTTP class.
AddStatusCode_HttpOnly(s, statusCode) ==
    IF statusCode >= 100 /\ statusCode < 200 THEN [s EXCEPT !.Http1xxCount = @ + 1]
    ELSE IF statusCode >= 200 /\ statusCode < 300 THEN [s EXCEPT !.Http2xxCount = @ + 1]
    ELSE IF statusCode >= 300 /\ statusCode < 400 THEN [s EXCEPT !.Http3xxCount = @ + 1]
    ELSE IF statusCode >= 400 /\ statusCode < 500 THEN [s EXCEPT !.Http4xxCount = @ + 1]
    ELSE IF statusCode >= 500 /\ statusCode < 600 THEN [s EXCEPT !.Http5xxCount = @ + 1]
    ELSE s

\* Stats.AddStatusCode(statusCode)
AddStatusCode(s, statusCode) ==
    IF statusCode >= 100 /\ statusCode < 200 THEN [s EXCEPT !.Http1xxCount = @ + 1]
    ELSE IF statusCode >= 200 /\ statusCode < 300 THEN [s EXCEPT !.Http2xxCount = @ + 1]
    ELSE IF statusCode >= 300 /\ statusCode < 400 THEN [s EXCEPT !.Http3xxCount = @ + 1]
    ELSE IF statusCode >= 400 /\ statusCode < 500 THEN [s EXCEPT !.Http4xxCount = @ + 1]
    ELSE IF statusCode >= 500 /\ statusCode < 600 THEN [s EXCEPT !.Http5xxCount = @ + 1]
    ELSE [s EXCEPT !.OtherCount = @ + 1]

\* Stats.AddBytes(bytes)
AddBytes(s, bytes) == [s EXCEPT !.TotalBytes = AddInt64(@, bytes).counter]

\* The latency record of Stats, which AddResponseTime reads and writes.
LatencyRecord(s) ==
    [totalResponseTime |-> s.totalResponseTime, responseCount |-> s.responseCount,
     minResponseTime |-> s.minResponseTime, maxResponseTime |-> s.maxResponseTime,
     responseTimes |-> s.responseTimes]

\* The body of AddResponseTime applied to the record read.
WithResponseTime(r, responseTimeMicros) ==
    [totalResponseTime |-> r.totalResponseTime + responseTimeMicros,
     responseCount |-> r.responseCount + 1,
     minResponseTime |-> IF responseTimeMicros < r.minResponseTime
                         THEN responseTimeMicros ELSE r.minResponseTime,
     maxResponseTime |-> IF responseTimeMicros > r.maxResponseTime
                         THEN responseTimeMicros ELSE r.maxResponseTime,
     responseTimes |-> Append(r.responseTimes, responseTimeMicros)]

NoCalls ==
    [IncrementSuccess |-> 0, IncrementFailure |-> 0, AddBytes |-> 0, bytes |-> 0,
     AddResponseTime |-> 0, time |-> 0]

IdleRecorder == [pc |-> "idle", is2xx |-> FALSE, value |-> 0, read |-> <<>>]

RecInit ==
    /\ RunnerIdle
    /\ stats = NewStats
    /\ selector = <<>>
    /\ picked = <<>>
    /\ responseTimes = <<>>
    /\ totalResponseTime = 0
    /\ query = <<>>
    /\ requestsPerSecond = 0
    /\ thresholds = <<>>
    /\ results = <<>>
    /\ executor = <<>>
    /\ variableMaps = <<>>
    /\ instances = <<>>
    /\ iterationCounter = 0
    /\ iterations = <<>>
    /\ goroutines = <<>>
    /\ invocation = <<>>
    /\ rampUp = <<>>
    /\ endpoints = <<>>
    /\ updaters = <<>>
    /\ counters = [SuccessCount |-> 0, FailureCount |-> 0, TotalBytes |-> 0,
                   Http1xxCount |-> 0, Http2xxCount |-> 0, Http3xxCount |-> 0,
                   Http4xxCount |-> 0, Http5xxCount |-> 0, OtherCount |-> 0,
                   mutex |-> 0, totalResponseTime |-> 0, responseCount |-> 0,
                   minResponseTime |-> MaxInt64, maxResponseTime |-> 0,
                   responseTimes |-> <<>>, calls |-> NoCalls]
    /\ recorders = [w \in Workers |-> IdleRecorder]
    /\ resolved = <<>>
    /\ validation = <<>>
    /\ hdr = <<>>

\* What the harness leaves alone.
recFrame == <<runnerVars, stats, selector, picked, responseTimes,
              totalResponseTime, query, requestsPerSecond, thresholds,
              results, executor, variableMaps, instances, iterationCounter,
              iterations, goroutines, invocation, rampUp, endpoints, updaters,
              resolved, validation, hdr>>

\* processRequest begins: the body or the request cannot be built or
\* client.Do fails ("failed"), or there is a response ("response").
RecProcessRequest(w) ==
    /\ recorders[w].pc = "idle"
    /\ \E next \in {"failed", "response"} :
          recorders' = [recorders EXCEPT ![w].pc = next]
    /\ UNCHANGED <<recFrame, counters>>

\* r.Stats.IncrementFailure() of a failure before any response.
RecFailed(w) ==
    /\ recorders[w].pc = "failed"
    /\ counters' = [IncrementFailure(counters) EXCEPT !.calls.IncrementFailure = @ + 1]
    /\ recorders' = [recorders EXCEPT ![w].pc = "other"]
    /\ UNCHANGED recFrame

\* r.Stats.AddStatusCode(0), and processRequest returns.
RecOther(w) ==
    /\ recorders[w].pc = "other"
    /\ counters' = AddStatusCode(counters, 0)
    /\ recorders' = [recorders EXCEPT ![w].pc = "done"]
    /\ UNCHANGED recFrame

\* recordResponse: r.Stats.AddStatusCode(resp.StatusCode)
RecStatus(w) ==
    /\ recorders[w].pc = "response"
    /\ \E statusCode \in StatusCodes :
          /\ counters' = AddStatusCode(counters, statusCode)
          /\ recorders' = [recorders EXCEPT
                ![w].pc = "read",
                ![w].is2xx = (statusCode >= 200 /\ statusCode < 300)]
    /\ UNCHANGED recFrame

\* io.ReadAll fails: r.Stats.IncrementFailure(), and recordResponse returns.
RecReadError(w) ==
    /\ recorders[w].pc = "read"
    /\ counters' = [IncrementFailure(counters) EXCEPT !.calls.IncrementFailure = @ + 1]
    /\ recorders' = [recorders EXCEPT ![w].pc = "done"]
    /\ UNCHANGED recFrame

\* io.ReadAll succeeds: r.Stats.AddBytes(int64(len(respBody)))
RecAddBytes(w) ==
    /\ recorders[w].pc = "read"
    /\ \E bytes \in BodyLengths :
          counters' = [AddBytes(counters, bytes) EXCEPT
                          !.calls.AddBytes = @ + 1, !.calls.bytes = @ + bytes]
    /\ recorders' = [recorders EXCEPT ![w].pc = "verdict"]
    /\ UNCHANGED recFrame

\* IncrementSuccess for a 2xx status, IncrementFailure otherwise.
RecVerdict(w) ==
    /\ recorders[w].pc = "verdict"
    /\ counters' = IF recorders[w].is2xx
                   THEN [IncrementSuccess(counters) EXCEPT !.calls.IncrementSuccess = @ + 1]
                   ELSE [IncrementFailure(counters) EXCEPT !.calls.IncrementFailure = @ + 1]
    /\ \E responseTime \in ResponseTimes :
          recorders' = [recorders EXCEPT ![w].pc = "lock", ![w].value = responseTime]
    /\ UNCHANGED recFrame

\* AddResponseTime: s.mutex.Lock()
RecLock(w) ==
    /\ recorders[w].pc = "lock"
    /\ CanLock(counters.mutex)
    /\ counters' = [counters EXCEPT !.mutex = w]
    /\ recorders' = [recorders EXCEPT ![w].pc = "load"]
    /\ UNCHANGED recFrame

\* AddResponseTime reads the latency record.
RecLoad(w) ==
    /\ recorders[w].pc = "load"
    /\ recorders' = [recorders EXCEPT ![w].pc = "store",
                                      ![w].read = LatencyRecord(counters)]
    /\ UNCHANGED <<recFrame, counters>>

\* AddResponseTime writes the latency record.
RecStore(w) ==
    /\ recorders[w].pc = "store"
    /\ LET r == WithResponseTime(recorders[w].read, recorders[w].value)
       IN  counters' = [counters EXCEPT
               !.totalResponseTime = r.totalResponseTime,
               !.responseCount = r.responseCount,
               !.minResponseTime = r.minResponseTime,
               !.maxResponseTime = r.maxResponseTime,
               !.responseTimes = r.responseTimes]
    /\ recorders' = [recorders EXCEPT ![w].pc = "unlock", ![w].read = <<>>]
    /\ UNCHANGED recFrame

\* AddResponseTime: defer s.mutex.Unlock(); the call has returned.
RecUnlock(w) ==
    /\ recorders[w].pc = "unlock"
    /\ counters' = [counters EXCEPT
          !.mutex = 0,
          !.calls.AddResponseTime = @ + 1,
          !.calls.time = @ + recorders[w].value]
    /\ recorders' = [recorders EXCEPT ![w].pc = "done"]
    /\ UNCHANGED recFrame

RecNext ==
    \E w \in Workers :
        \/ RecProcessRequest(w)
        \/ RecFailed(w)
        \/ RecOther(w)
        \/ RecStatus(w)
        \/ RecReadError(w)
        \/ RecAddBytes(w)
        \/ RecVerdict(w)
        \/ RecLock(w)
        \/ RecLoad(w)
        \/ RecStore(w)
        \/ RecUnlock(w)

RecSpec == RecInit /\ [][RecNext]_vars

(* ---------------------------- resolveVariables ----------------------- *)

\* A string is a sequence of tokens: a piece of text, a placeholder of a
\* dynamic function ({{$uuid}}), a placeholder of a variable ({{user}}), or a
\* value a dynamic function generated; n numbers the generating calls.

\* The most tokens of a template.
MaxTokens == 2

\* The dynamic functions, in the order resolveDynamicFunctions handles them.
DynamicFunctions == <<"$uuid", "$randomInt", "$timestamp", "$iteration", "$randomUser">>

Text(name) == [kind |-> "text", name |-> name, n |-> 0]

\* "{{" + name + "}}" for a dynamic function.
FnPlaceholder(name) == [kind |-> "fn", name |-> name, n |-> 0]

\* "{{" + key + "}}" for a variable.
VarPlaceholder(key) == [kind |-> "var", name |-> key, n |-> 0]

\* What the n-th generating call returned: generateUUID(), the next value of
\* iterationCounter, the clock, ...
Generated(name, n) == [kind |-> "value", name |-> name, n |-> n]

\* The tokens of the templates (URL, header value, body) tried.
TemplateTokens ==
    {Text("x"), FnPlaceholder("$uuid"), FnPlaceholder("$iteration"),
     FnPlaceholder("$timestamp"), VarPlaceholder("user"), VarPlaceholder("authToken")}

Templates == UNION {[1 .. n -> TemplateTokens] : n \in 1 .. MaxTokens}

\* The values of the variables tried: text, a dynamic-function placeholder,
\* the placeholder of another variable.
VariableValues ==
    {<<Text("v")>>, <<FnPlaceholder("$uuid")>>, <<VarPlaceholder("user")>>}

\* The variable maps tried.
VariableMaps == UNION {[D -> VariableValues] : D \in SUBSET VarNames}

\* The orders in which range can visit the keys of a map.
RangeOrders(D) ==
    {o \in [1 .. Cardinality(D) -> D] : \A i, j \in DOMAIN o : o[i] = o[j] => i = j}

\* strings.Contains(s, placeholder)
Contains(str, token) == \E i \in DOMAIN str : str[i] = token

\* strings.Replace(s, placeholder, value, 1): the first occurrence replaced.
RECURSIVE ReplaceFirst(_, _, _)
ReplaceFirst(str, token, value) ==
    IF str = <<>> THEN <<>>
    ELSE IF Head(str) = token THEN <<value>> \o Tail(str)
    ELSE <<Head(str)>> \o ReplaceFirst(Tail(str), token, value)

\* strings.ReplaceAll(s, placeholder, value)
RECURSIVE ReplaceAll(_, _, _)
ReplaceAll(str, token, value) ==
    IF str = <<>> THEN <<>>
    ELSE (IF Head(str) = token THEN value ELSE <<Head(str)>>)
             \o ReplaceAll(Tail(str), token, value)

\* for strings.Contains(result, "{{$f}}") { result = strings.Replace(result,
\* "{{$f}}", <a generated value>, 1) }, after `calls` generating calls.
RECURSIVE ResolveFunction(_, _, _)
ResolveFunction(str, name, calls) ==
    IF Contains(str, FnPlaceholder(name))
    THEN ResolveFunction(ReplaceFirst(str, FnPlaceholder(name), Generated(name, calls + 1)),
                         name, calls + 1)
    ELSE [result |-> str, calls |-> calls]

\* resolveDynamicFunctions: the loops of functions k .. 5, one after another.
RECURSIVE ResolveFunctionsFrom(_, _, _)
ResolveFunctionsFrom(k, str, calls) ==
    IF k > Len(DynamicFunctions) THEN [result |-> str, calls |-> calls]
    ELSE LET r == ResolveFunction(str, DynamicFunctions[k], calls)
         IN  ResolveFunctionsFrom(k + 1, r.result, r.calls)

resolveDynamicFunctions(input, calls) == ResolveFunctionsFrom(1, input, calls)

\* for key, value := range variables { result = strings.ReplaceAll(result,
\* "{{"+key+"}}", value) }, the keys visited in the given order from the k-th.
RECURSIVE ReplaceVariablesFrom(_, _, _, _)
ReplaceVariablesFrom(k, str, variables, order) ==
    IF k > Len(order) THEN str
    ELSE ReplaceVariablesFrom(k + 1,
             ReplaceAll(str, VarPlaceholder(order[k]), variables[order[k]]),
             variables, order)

\* resolveVariables replacing the variables before the dynamic functions.
resolveVariables_StaticFirst(input, variables, order, calls) ==
    resolveDynamicFunctions(ReplaceVariablesFrom(1, input, variables, order), calls)

\* resolveVariables(input, variables): the dynamic functions first, then the
\* variables.
resolveVariables(input, variables, order, calls) ==
    LET d == resolveDynamicFunctions(input, calls)
    IN  [result |-> ReplaceVariablesFrom(1, d.result, variables, order),
         calls |-> d.calls]

\* A template and a variable map, before resolveVariables is called.
ResInit ==
    /\ RunnerIdle
    /\ stats = NewStats
    /\ selector = <<>>
    /\ picked = <<>>
    /\ responseTimes = <<>>
    /\ totalResponseTime = 0
    /\ query = <<>>
    /\ requestsPerSecond = 0
    /\ thresholds = <<>>
    /\ results = <<>>
    /\ executor = <<>>
    /\ variableMaps = <<>>
    /\ instances = <<>>
    /\ iterationCounter = 0
    /\ iterations = <<>>
    /\ goroutines = <<>>
    /\ invocation = <<>>
    /\ rampUp = <<>>
    /\ endpoints = <<>>
    /\ updaters = <<>>
    /\ counters = <<>>
    /\ recorders = <<>>
    /\ \E input \in Templates, variables \in VariableMaps :
          resolved = [input |-> input, variables |-> variables, called |-> FALSE,
                      result |-> <<>>, calls |-> 0]
    /\ validation = <<>>
    /\ hdr = <<>>

\* One call of resolveVariables(input, variables).
ResResolve ==
    /\ ~resolved.called
    /\ \E order \in RangeOrders(DOMAIN resolved.variables) :
          LET r == resolveVariables(resolved.input, resolved.variables, order,
                                    resolved.calls)
          IN  resolved' = [resolved EXCEPT !.called = TRUE, !.result = r.result,
                                           !.calls = r.calls]
    /\ UNCHANGED <<runnerVars, stats, selector, picked, responseTimes,
                   totalResponseTime, query, requestsPerSecond, thresholds,
                   results, executor, variableMaps, instances, iterationCounter,
                   iterations, goroutines, invocation, rampUp, endpoints,
                   updaters, counters, recorders, validation, hdr>>

ResNext == ResResolve

ResSpec == ResInit /\ [][ResNext]_vars

(* ---------------------------- validateResponse: the status ----------- *)

\* ValidateConfig.Status is an interface{} filled by json.Unmarshal: nil when
\* absent, a float64 for a number, a []interface{} for an array, a string for
\* a string. A number is kept in tenths, so that 2005 is 200.5.

\* The status codes of the responses validated.
ActualStatuses == {200, 201, 404}

Nil == [type |-> "nil", tenths |-> 0, elems |-> <<>>]

IntValue(v) == [type |-> "int", tenths |-> 10 * v, elems |-> <<>>]

Float64Value(tenths) == [type |-> "float64", tenths |-> tenths, elems |-> <<>>]

StringValue == [type |-> "string", tenths |-> 0, elems |-> <<>>]

ListValue(elems) == [type |-> "list", tenths |-> 0, elems |-> elems]

\* The values of validate.Status tried.
ExpectedStatuses ==
    {Nil, IntValue(200), Float64Value(2000), Float64Value(2005), StringValue, ListValue(<<>>),
     ListValue(<<Float64Value(2000), Float64Value(4040)>>), ListValue(<<IntValue(201)>>),
     ListValue(<<StringValue>>), ListValue(<<Float64Value(2015)>>)}

\* The values of validate.StatusRange tried: nil, and every pair of bounds.
StatusRanges ==
    {[set |-> FALSE, Min |-> 0, Max |-> 0]}
        \cup [set : {TRUE}, Min : ActualStatuses, Max : ActualStatuses]

\* int(v) of a float64, and the value of an int.
IntOf(x) == x.tenths \div 10

\* validateStatusCode failing any expected value that is no number or list.
validateStatusCode_RejectUnknown(actual, expected) ==
    CASE expected.type \in {"int", "float64"} -> actual = IntOf(expected)
      [] expected.type = "list" ->
            \E i \in DOMAIN expected.elems :
                /\ expected.elems[i].type \in {"int", "float64"}
                /\ actual = IntOf(expected.elems[i])
      [] OTHER -> FALSE

\* validateStatusCode(actual, expected)
validateStatusCode(actual, expected) ==
    CASE expected.type \in {"int", "float64"} -> actual = IntOf(expected)
      [] expected.type = "list" ->
            \E i \in DOMAIN expected.elems :
                /\ expected.elems[i].type \in {"int", "float64"}
                /\ actual = IntOf(expected.elems[i])
      [] OTHER -> TRUE

\* The errors validateResponse reports for the status code and the status
\* range; its other checks (body, JSONPath, headers, response time) add
\* errors of their own and are not followed here.
validateResponse(StatusCode, validate) ==
    (IF validate.Status # Nil /\ ~validateStatusCode(StatusCode, validate.Status)
     THEN {"unexpected status code"} ELSE {})
    \cup
    (IF validate.StatusRange.set
        /\ (StatusCode < validate.StatusRange.Min \/ StatusCode > validate.StatusRange.Max)
     THEN {"status code not in range"} ELSE {})

\* A response and a ValidateConfig, before validateResponse is called.
ValInit ==
    /\ RunnerIdle
    /\ stats = NewStats
    /\ selector = <<>>
    /\ picked = <<>>
    /\ responseTimes = <<>>
    /\ totalResponseTime = 0
    /\ query = <<>>
    /\ requestsPerSecond = 0
    /\ thresholds = <<>>
    /\ results = <<>>
    /\ executor = <<>>
    /\ variableMaps = <<>>
    /\ instances = <<>>
    /\ iterationCounter = 0
    /\ iterations = <<>>
    /\ goroutines = <<>>
    /\ invocation = <<>>
    /\ rampUp = <<>>
    /\ endpoints = <<>>
    /\ updaters = <<>>
    /\ counters = <<>>
    /\ recorders = <<>>
    /\ resolved = <<>>
    /\ \E a \in ActualStatuses, e \in ExpectedStatuses, r \in StatusRanges :
          validation = [StatusCode |-> a,
                        validate |-> [Status |-> e, StatusRange |-> r],
                        called |-> FALSE, errors |-> {}]
    /\ hdr = <<>>

\* One call of validateResponse(resp, body, validate, responseTime).
ValValidate ==
    /\ ~validation.called
    /\ validation' = [validation EXCEPT
          !.called = TRUE,
          !.errors = validateResponse(validation.StatusCode, validation.validate)]
    /\ UNCHANGED <<runnerVars, stats, selector, picked, responseTimes,
                   totalResponseTime, query, requestsPerSecond, thresholds,
                   results, executor, variableMaps, instances, iterationCounter,
                   iterations, goroutines, invocation, rampUp, endpoints,
                   updaters, counters, recorders, resolved, hdr>>

ValNext == ValValidate

ValSpec == ValInit /\ [][ValNext]_vars

(* ---------------------------- HdrStats ------------------------------- *)

\* An HdrStats wraps a hdrhistogram.Histogram (github.com/HdrHistogram/
\* hdrhistogram-go, imported by histogram.go). Of the histogram the model
\* keeps the largest value it can record and the count of each value:
\* RecordValue(v) returns an error for a value it cannot record and counts
\* it otherwise; Merge(from) records every value of from in the receiver and
\* drops those it cannot record, returning their number; Reset clears the
\* counts; TotalCount is the number of values recorded.

\* The values recorded, in microseconds.
HdrValues == 1 .. MaxLatency

\* The largest trackable values the histograms are created with.
HighestTrackable == {MaxLatency - 1, MaxLatency}

\* hdrhistogram.New(minValue, maxValue, sigFigs)
NewHistogram(maxValue) ==
    [highest |-> maxValue, counts |-> [v \in HdrValues |-> 0]]

\* Histogram.RecordValues(v, c)
HistogramRecordValues(hist, v, c) ==
    IF v > hist.highest
    THEN [histogram |-> hist, err |-> TRUE]
    ELSE [histogram |-> [hist EXCEPT !.counts[v] = @ + c], err |-> FALSE]

\* Histogram.Merge(from)
HistogramMerge(hist, from) ==
    [hist EXCEPT !.counts =
        [v \in HdrValues |->
            HistogramRecordValues(hist, v, from.counts[v]).histogram.counts[v]]]

RECURSIVE SumCounts(_, _)
SumCounts(counts, v) ==
    IF v = 0 THEN 0 ELSE counts[v] + SumCounts(counts, v - 1)

\* Histogram.TotalCount()
TotalCount(hist) == SumCounts(hist.counts, MaxLatency)

\* NewHdrStats(minValue, maxValue, sigFigs)
NewHdrStats(maxValue) ==
    [histogram |-> NewHistogram(maxValue), minValue |-> MaxInt64,
     maxValue |-> 0, count |-> 0]

\* HdrStats.RecordValue(value)
HdrStatsRecordValue(h, value) ==
    LET r == HistogramRecordValues(h.histogram, value, 1)
    IN  IF r.err THEN [h |-> h, err |-> TRUE]
        ELSE [h |-> [histogram |-> r.histogram,
                     minValue |-> IF value < h.minValue THEN value ELSE h.minValue,
                     maxValue |-> IF value > h.maxValue THEN value ELSE h.maxValue,
                     count |-> h.count + 1],
              err |-> FALSE]

\* HdrStats.Merge(other)
HdrStatsMerge(h, other) ==
    [histogram |-> HistogramMerge(h.histogram, other.histogram),
     minValue |-> IF other.minValue < h.minValue THEN other.minValue ELSE h.minValue,
     maxValue |-> IF other.maxValue > h.maxValue THEN other.maxValue ELSE h.maxValue,
     count |-> h.count + other.count]

\* HdrStats.Reset()
HdrStatsReset(h) ==
    [histogram |-> NewHistogram(h.histogram.highest), minValue |-> MaxInt64,
     maxValue |-> 0, count |-> 0]

\* HdrStats.Min()
HdrStatsMin(h) == IF h.minValue = MaxInt64 THEN 0 ELSE h.minValue

\* HdrStats.Max()
HdrStatsMax(h) == h.maxValue

\* HdrStats.Count()
HdrStatsCount(h) == TotalCount(h.histogram)

\* Two HdrStats, each created with its largest trackable value.
HdrInit ==
    /\ RunnerIdle
    /\ stats = NewStats
    /\ selector = <<>>
    /\ picked = <<>>
    /\ responseTimes = <<>>
    /\ totalResponseTime = 0
    /\ query = <<>>
    /\ requestsPerSecond = 0
    /\ thresholds = <<>>
    /\ results = <<>>
    /\ executor = <<>>
    /\ variableMaps = <<>>
    /\ instances = <<>>
    /\ iterationCounter = 0
    /\ iterations = <<>>
    /\ goroutines = <<>>
    /\ invocation = <<>>
    /\ rampUp = <<>>
    /\ endpoints = <<>>
    /\ updaters = <<>>
    /\ counters = <<>>
    /\ recorders = <<>>
    /\ resolved = <<>>
    /\ validation = <<>>
    /\ \E m1, m2 \in HighestTrackable :
          hdr = [h |-> NewHdrStats(m1), other |-> NewHdrStats(m2),
                 last |-> [op |-> "NewHdrStats", err |-> FALSE]]

\* What the harness leaves alone.
hdrFrame == <<runnerVars, stats, selector, picked, responseTimes,
              totalResponseTime, query, requestsPerSecond, thresholds,
              results, executor, variableMaps, instances, iterationCounter,
              iterations, goroutines, invocation, rampUp, endpoints, updaters,
              counters, recorders, resolved, validation>>

\* h.RecordValue(value)
HdrRecordValue ==
    /\ hdr.h.count < MaxSamples
    /\ \E value \in HdrValues :
          LET r == HdrStatsRecordValue(hdr.h, value)
          IN  hdr' = [hdr EXCEPT !.h = r.h,
                                 !.last = [op |-> "RecordValue", err |-> r.err]]
    /\ UNCHANGED hdrFrame

\* other.RecordValue(value), filling the HdrStats that is merged into h.
HdrRecordOther ==
    /\ hdr.other.count < MaxSamples
    /\ \E value \in HdrValues :
          LET r == HdrStatsRecordValue(hdr.other, value)
          IN  hdr' = [hdr EXCEPT !.other = r.h,
                                 !.last = [op |-> "other.RecordValue", err |-> r.err]]
    /\ UNCHANGED hdrFrame

\* h.Merge(other)
HdrMerge ==
    /\ hdr.h.count + hdr.other.count <= MaxSamples
    /\ hdr' = [hdr EXCEPT !.h = HdrStatsMerge(hdr.h, hdr.other),
                          !.last = [op |-> "Merge", err |-> FALSE]]
    /\ UNCHANGED hdrFrame

\* h.Reset()
HdrReset ==
    /\ hdr' = [hdr EXCEPT !.h = HdrStatsReset(hdr.h),
                          !.last = [op |-> "Reset", err |-> FALSE]]
    /\ UNCHANGED hdrFrame

HdrNext == HdrRecordValue \/ HdrRecordOther \/ HdrMerge \/ HdrReset

HdrSpec == HdrInit /\ [][HdrNext]_vars

(* ---------------------------- claims ----------------------------------- *)

\* Workers that have acquired a concurrency slot and not yet released it.
Holders == {w \in Workers : pc[w] \in {"do", "sctx", "sdo"}}

\* C1: after any completed run the final Stats satisfies
\* SuccessCount + FailureCount = TotalRequests.
C1_SuccessPlusFailureIsTotal ==
    runPc = "done" =>
        stats.SuccessCount + stats.FailureCount = stats.TotalRequests

\* C2: after any completed run TotalRequests equals the sum of RequestCount
\* over all per-endpoint entries.
C2_TotalIsSumOfEndpoints ==
    runPc = "done" => stats.TotalRequests = TotalPerEndpoint

\* C3: in every reachable state the number of workers holding a concurrency
\* slot (requests or scenario instances in flight) is the number of occupied
\* slots of the semaphore and is at most concurrentUsers.
C3_ConcurrencyBound ==
    /\ Cardinality(Holders) = semaphore
    /\ semaphore <= ConcurrentUsers

C3_Witness == semaphore = ConcurrentUsers /\ ConcurrentUsers > 1

\* C4: in fixed-count request mode with no external interrupt the run is
\* cancelled only once all concurrentUsers x requestsPerUser requests have
\* been executed, and it ends with exactly that many requests recorded (all of
\* them successes against an endpoint that always answers 200).
C4_FixedCountRunsAll ==
    (~cfg.scenario /\ ~cfg.duration /\ ~interrupted) =>
        /\ cancelled => completed = ConcurrentUsers * RequestsPerUser
        /\ runPc = "done" =>
              /\ stats.TotalRequests = ConcurrentUsers * RequestsPerUser
              /\ stats.SuccessCount + stats.FailureCount
                    = ConcurrentUsers * RequestsPerUser
              /\ cfg.fault = "none" =>
                    stats.SuccessCount = ConcurrentUsers * RequestsPerUser

C4_Witness ==
    /\ ~cfg.scenario /\ ~cfg.duration /\ ~interrupted
    /\ cfg.fault = "none"
    /\ runPc = "done"
    /\ stats.SuccessCount = ConcurrentUsers * RequestsPerUser

\* C5: once the cancellation signal has fired, no worker dispatches a new
\* HTTP request (request mode) or a new scenario step (scenario mode).
C5_NoNewWorkAfterCancel ==
    [][cancelled =>
          \A w \in Workers : pc'[w] \in {"do", "sdo"} => pc'[w] = pc[w]]_vars

\* C6: an HTTP call dispatched before the cancellation signal fired runs to
\* completion: the cancellation of the run never ends an in-flight call.
C6_InFlightCallsComplete == aborted = 0

\* C7: an attempt that ends early because the run was cancelled is not
\* counted in FailureCount and not added to the error table.
C7_CancelledAttemptNotRecorded ==
    [][aborted' > aborted =>
          /\ stats'.FailureCount = stats.FailureCount
          /\ stats'.errors = stats.errors]_vars

\* C8: under fairness, once the cancellation signal has fired every worker
\* returns and Run / RunScenario returns with the totals stamped.
C8_CancelLeadsToReturn ==
    cancelled ~> (runPc = "done" /\ stats.stamped /\ \A w \in Workers : pc[w] = "exited")

\* A run cancelled while a worker is blocked in its ramp-up delay, another
\* one having a call in flight.
C8_Witness ==
    /\ cancelled
    /\ runPc = "running"
    /\ \E w \in Workers : pc[w] = "ramp"
    /\ \E w \in Workers : pc[w] \in {"do", "sdo"}

\* C9: a RateLimiter of rate R > 0 holds between 0 and 2R tokens, starts with
\* exactly R, and gains at most one token per tick, so the Wait calls that
\* returned true never exceed R plus the ticks that occurred.
C9_TokenBucketBounds ==
    cfg.rate > 0 =>
        /\ tokens \in 0 .. 2 * cfg.rate
        /\ (ticks = 0 /\ granted = 0) => tokens = cfg.rate
        /\ granted + tokens <= cfg.rate + ticks
        /\ granted <= cfg.rate + ticks

\* The bucket is full after a burst was served and a tick was dropped.
C9_Witness ==
    /\ cfg.rate > 0
    /\ granted > 0
    /\ tokens = 2 * cfg.rate
    /\ granted + tokens < cfg.rate + ticks

\* C10: Wait returns true only by removing exactly one token, returns false
\* only when the context is done and without removing a token, and a Wait
\* blocked while the context is done returns.
C10_WaitContract ==
    /\ [][\A c \in Callers :
            /\ (cfg.rate > 0 /\ caller[c] = "waiting" /\ caller'[c] = "true") =>
                  (tokens > 0 /\ tokens' = tokens - 1)
            /\ (caller[c] = "waiting" /\ caller'[c] = "false") =>
                  (cancelled /\ tokens' = tokens)]_vars
    /\ \A c \in Callers :
          (caller[c] = "waiting" /\ cancelled) ~> (caller[c] # "waiting")

\* A Wait blocked on an empty bucket has returned false after the signal.
C10_Witness ==
    /\ cfg.rate > 0
    /\ cancelled
    /\ tokens = 0
    /\ \E c \in Callers : caller[c] = "false"
    /\ \E c \in Callers : caller[c] = "true"

\* C11: for a configured rate <= 0 no limiter is built (no bucket, no tick)
\* and Wait on the absent limiter returns true at once, whatever the context,
\* without consuming anything; the run itself builds no limiter.
C11_NoLimiterForNonPositiveRate ==
    /\ [](cfg.rate <= 0 => (tokens = 0 /\ ticks = 0 /\ ~HasLimiter))
    /\ [][cfg.rate <= 0 =>
            \A c \in Callers :
                (caller[c] = "waiting" /\ caller'[c] # "waiting") =>
                    (caller'[c] = "true" /\ tokens' = tokens)]_vars
    /\ \A c \in Callers :
          (cfg.rate <= 0 /\ caller[c] = "waiting") ~> (caller[c] = "true")

\* More waits have succeeded than any bucket of that rate could have served,
\* one of them after the context was cancelled.
C11_Witness ==
    /\ cfg.rate < 0
    /\ cancelled
    /\ granted > 1
    /\ \A c \in Callers : caller[c] = "true"

\* C12: for a list of at least two requests with positive weights and every
\* draw r in [0, totalWeight), Select returns the smallest index i with
\* r < cumulativeWeights[i]; so exactly weight_i draws select request i.
C12_SelectByCumulativeWeight ==
    LET n == Len(selector.requests)
        First(r) == CHOOSE i \in 1 .. n :
                        /\ r < selector.cumulativeWeights[i]
                        /\ \A j \in 1 .. i - 1 : ~(r < selector.cumulativeWeights[j])
    IN  (selector # <<>> /\ n >= 2) =>
            /\ \A r \in Draws(selector) : Select(selector, r) = First(r)
            /\ \A i \in 1 .. n :
                  Cardinality({r \in Draws(selector) : Select(selector, r) = i})
                      = selector.requests[i]
            /\ picked # <<>> => picked.request = First(picked.r)

\* A draw on the boundary of the first request's share selected the second
\* of three unequally weighted requests.
C12_Witness ==
    /\ selector # <<>>
    /\ Len(selector.requests) = 3
    /\ selector.requests[1] > selector.requests[2]
    /\ picked # <<>>
    /\ picked.r = selector.cumulativeWeights[1]
    /\ picked.request = 2

\* C13: for every sequence of recorded samples and all percentiles p1 < p2,
\* GetLatencyPercentile(p1) <= GetLatencyPercentile(p2).
C13_PercentileMonotone ==
    \A p1, p2 \in Percentiles :
        p1 < p2 => GetLatencyPercentile(responseTimes, p1)
                      <= GetLatencyPercentile(responseTimes, p2)

\* Samples recorded out of order whose median is below their maximum.
C13_Witness ==
    /\ Len(responseTimes) >= 3
    /\ responseTimes[1] > responseTimes[2]
    /\ GetLatencyPercentile(responseTimes, 50) < GetLatencyPercentile(responseTimes, 99)
    /\ query # <<>>
    /\ query.percentile = 50
    /\ query.value = GetLatencyPercentile(responseTimes, 50)

\* C14 as stated: with at most one sample StandardDeviation() and
\* AverageResponseTime() both return 0.
C14_ZeroForAtMostOneSample ==
    Len(responseTimes) <= 1 =>
        /\ IsZero(StandardDeviation(responseTimes, totalResponseTime, stats.responseCount))
        /\ IsZero(AverageResponseTime(totalResponseTime, stats.responseCount))

\* C14 amended: with at most one sample StandardDeviation() returns 0;
\* AverageResponseTime() returns 0 without a sample and the sample itself
\* when there is exactly one.
C14_ZeroDeviationSampleAverage ==
    LET avg == AverageResponseTime(totalResponseTime, stats.responseCount)
    IN  Len(responseTimes) <= 1 =>
            /\ IsZero(StandardDeviation(responseTimes, totalResponseTime, stats.responseCount))
            /\ Len(responseTimes) = 0 => IsZero(avg)
            /\ Len(responseTimes) = 1 =>
                  (avg.den # 0 /\ avg.num = responseTimes[1] * avg.den)

\* Exactly one sample, of a positive latency.
C14_Witness ==
    /\ Len(responseTimes) = 1
    /\ responseTimes[1] > 0
    /\ stats.responseCount = 1

\* C15: the overall Passed of the ThresholdResults is true exactly when every
\* result in it has Passed = true; with no criterion configured it is true.
C15_OverallIsConjunction ==
    (results # <<>> /\ ~results.err) =>
        /\ results.Passed <=>
              \A i \in 1 .. Len(results.Results) : results.Results[i].Passed
        /\ ~HasThresholds(thresholds) => results.Passed

\* A passed and a failed criterion in one evaluation.
C15_Witness ==
    /\ results # <<>>
    /\ ~results.err
    /\ ~results.Passed
    /\ \E i, j \in 1 .. Len(results.Results) :
          results.Results[i].Passed /\ ~results.Results[j].Passed

\* The criteria of a ThresholdConfig that are not at their zero value.
NonZeroCriteria(t) ==
    (IF t.MaxErrorRate # 0 THEN {"Max Error Rate"} ELSE {})
    \cup (IF t.MaxAvgLatency # "" THEN {"Max Avg Latency"} ELSE {})
    \cup (IF t.MaxP50Latency # "" THEN {"Max P50 Latency"} ELSE {})
    \cup (IF t.MaxP75Latency # "" THEN {"Max P75 Latency"} ELSE {})
    \cup (IF t.MaxP90Latency # "" THEN {"Max P90 Latency"} ELSE {})
    \cup (IF t.MaxP99Latency # "" THEN {"Max P99 Latency"} ELSE {})
    \cup (IF t.MinRequestsPerSecond # 0 THEN {"Min Requests/sec"} ELSE {})
    \cup (IF t.MaxRequestsPerSecond # 0 THEN {"Max Requests/sec"} ELSE {})

\* The criteria that are set: a positive rate, a non-empty latency string.
PositiveCriteria(t) ==
    NonZeroCriteria(t) \ {n \in {"Max Error Rate"} : t.MaxErrorRate < 0}

\* Some latency string of the ThresholdConfig is not a duration.
MalformedLatency(t) ==
    \E str \in {t.MaxAvgLatency, t.MaxP50Latency, t.MaxP75Latency,
                t.MaxP90Latency, t.MaxP99Latency} : ParseLatency(str).err

\* The names of the results returned.
ResultNames == {results.Results[i].Name : i \in 1 .. Len(results.Results)}

\* C16 as stated: EvaluateThresholds returns exactly one result for each
\* criterion that is not at its zero value and none for the others.
C16_OneResultPerNonZeroCriterion ==
    results # <<>> =>
        /\ ResultNames = NonZeroCriteria(thresholds)
        /\ Len(results.Results) = Cardinality(NonZeroCriteria(thresholds))

\* C16 amended: when every latency string that is set is a duration,
\* EvaluateThresholds returns exactly one result for each criterion that is
\* set (a positive rate, a non-empty latency string) and none for the others
\* (zero or negative); when one is not a duration it returns an error and no
\* result.
C16_OneResultPerSetCriterion ==
    results # <<>> =>
        IF MalformedLatency(thresholds)
        THEN results.err /\ results.Results = <<>>
        ELSE /\ ~results.err
             /\ ResultNames = PositiveCriteria(thresholds)
             /\ Len(results.Results) = Cardinality(PositiveCriteria(thresholds))

\* A negative rate next to criteria that are set: no result for the former.
C16_Witness ==
    /\ results # <<>>
    /\ thresholds.MaxErrorRate < 0
    /\ ~results.err
    /\ Len(results.Results) >= 2
    /\ Len(results.Results) < Cardinality(NonZeroCriteria(thresholds))

\* C17: the "Max Error Rate" criterion passes exactly when
\* FailureCount / (SuccessCount + FailureCount) <= maxErrorRate, the rate
\* being 0 without requests; 2 failures, 98 successes and a limit of 1% fail
\* the criterion and the overall result.
C17_ErrorRateCriterion ==
    (results # <<>> /\ ~results.err /\ thresholds.MaxErrorRate > 0) =>
        LET total == stats.SuccessCount + stats.FailureCount
            r     == results.Results[1]
        IN  /\ r.Name = "Max Error Rate"
            /\ total > 0 =>
                  (r.Passed <=> stats.FailureCount * 100
                                    <= thresholds.MaxErrorRate * total)
            /\ total = 0 => r.Passed
            /\ (stats.FailureCount = 2 /\ stats.SuccessCount = 98
                  /\ thresholds.MaxErrorRate = 1) =>
                  (~r.Passed /\ ~results.Passed)

\* The 2-in-100 run evaluated against a limit of 1%.
C17_Witness ==
    /\ results # <<>>
    /\ ~results.err
    /\ stats.FailureCount = 2
    /\ stats.SuccessCount = 98
    /\ thresholds.MaxErrorRate = 1
    /\ ~results.Passed

\* C18: EvaluateThresholds leaves the Stats (counters, the samples and their
\* order, rate, per-endpoint entries) and the ThresholdConfig as they were,
\* whether it returns results or an error.
C18_EvaluateLeavesInputs ==
    [][results' # results =>
          /\ stats' = stats
          /\ responseTimes' = responseTimes
          /\ totalResponseTime' = totalResponseTime
          /\ requestsPerSecond' = requestsPerSecond
          /\ reqStats' = reqStats
          /\ thresholds' = thresholds]_vars

\* Percentiles were evaluated over samples recorded out of order.
C18_Witness ==
    /\ results # <<>>
    /\ ~results.err
    /\ QueriesPercentile(thresholds)
    /\ Len(responseTimes) = 2
    /\ responseTimes[1] > responseTimes[2]

\* C19: absent cancellation one scenario instance executes every configured
\* step exactly once, in declared order, whatever the earlier steps' outcome,
\* and returns one StepResult per step in that order.
C19_AllStepsInOrder ==
    /\ \A k \in 1 .. Len(executor.StepResults) :
          executor.StepResults[k].StepName = Steps[k]
    /\ (executor.pc = "returned" /\ ~cancelled) =>
          Len(executor.StepResults) = NumSteps

\* The instance returned all its results although its first step failed.
C19_Witness ==
    /\ executor.pc = "returned"
    /\ ~cancelled
    /\ Len(executor.StepResults) = NumSteps
    /\ executor.StepResults[1].outcome \in {"construct", "transport", "validation", "http"}
    /\ executor.StepResults[NumSteps].outcome = "ok"

\* C20: a step is recorded as a success (StepResult.Success, SuccessCount,
\* the per-step SuccessCount) exactly when the round trip succeeded at
\* transport level and every validation rule of the step passed; otherwise
\* it is recorded as exactly one failure. (A response outside 2xx is taken
\* here as a round trip that failed, as request mode counts it.)
C20_StepSuccessOrOneFailure ==
    [][Len(executor'.StepResults) = Len(executor.StepResults) + 1 =>
        LET r    == executor'.StepResults[Len(executor'.StepResults)]
            name == r.StepName
            sc(rs) == IF name \in DOMAIN rs THEN rs[name].SuccessCount ELSE 0
        IN  IF r.outcome = "ok"
            THEN /\ r.Success
                 /\ stats'.SuccessCount = stats.SuccessCount + 1
                 /\ stats'.FailureCount = stats.FailureCount
                 /\ sc(reqStats') = sc(reqStats) + 1
            ELSE /\ ~r.Success
                 /\ stats'.SuccessCount = stats.SuccessCount
                 /\ stats'.FailureCount = stats.FailureCount + 1
                 /\ sc(reqStats') = sc(reqStats)]_vars

\* Whether every step result of the instance is a success.
AllStepsSucceeded == \A k \in 1..Len(executor.StepResults) :
                         executor.StepResults[k].Success

\* C21 (as stated): the Success that ExecuteScenario returns is the conjunction
\* of the Success flags of its step results.
C21_SuccessIsConjunction ==
    executor.pc = "returned" => (executor.Success = AllStepsSucceeded)

\* C21 (amended): an instance that ran every step returns the conjunction of
\* its steps' Success flags; one cut short by cancellation returns false, also
\* when every step it ran succeeded.
C21_SuccessIsConjunctionUnlessCutShort ==
    executor.pc = "returned" =>
        IF Len(executor.StepResults) = NumSteps
        THEN executor.Success = AllStepsSucceeded
        ELSE ~executor.Success

\* A complete instance with a failed step followed by a successful one.
C21_Witness ==
    /\ executor.pc = "returned"
    /\ Len(executor.StepResults) = NumSteps
    /\ NumSteps > 1
    /\ ~executor.StepResults[1].Success
    /\ executor.StepResults[NumSteps].Success
    /\ ~executor.Success

\* The variable map an instance of configuration c holds after the responses
\* rs: c overlaid with the non-empty values of each response, in order.
RECURSIVE Overlaid(_, _)
Overlaid(c, rs) ==
    IF rs = <<>> THEN c
    ELSE LET before == Overlaid(c, SubSeq(rs, 1, Len(rs) - 1))
             last == rs[Len(rs)]
         IN  [n \in DOMAIN before \cup {m \in DOMAIN last : last[m] # Empty} |->
                 IF n \in DOMAIN last /\ last[n] # Empty THEN last[n]
                                                         ELSE before[n]]

\* The values of a variable map that come from a response.
Extracted(m) == {m[n] : n \in DOMAIN m} \ {ConfigValue, Empty}

\* C22: every ExecuteScenario call works on its own copy of the configuration
\* variables: the shared map is never modified, and the map of an instance
\* holds, besides the configuration's values, only values extracted by that
\* instance - none of another worker, none of an earlier run.
C22_InstancesOwnTheirVariables ==
    [][/\ variableMaps'[ConfigRef] = variableMaps[ConfigRef]
       /\ \A w \in Workers :
             /\ instances'[w].pc # "idle" => instances'[w].Variables = w
             /\ \A v \in Extracted(variableMaps'[w]) :
                    v.worker = w /\ v.run = instances'[w].run]_vars

\* Two workers hold different extracted values of the same variable, one of
\* them in its second run, and the configuration's value is untouched.
C22_Witness ==
    /\ \A w \in Workers : "authToken" \in DOMAIN variableMaps[w]
    /\ \A w \in Workers : variableMaps[w]["authToken"] = ResponseValue(w, instances[w].run, 1)
    /\ instances[1].run = 2
    /\ instances[2].run = 1
    /\ "authToken" \in DOMAIN variableMaps[ConfigRef]
    /\ variableMaps[ConfigRef]["authToken"] = ConfigValue

\* C23: the map step k is resolved with is the configuration's variables
\* overlaid with the non-empty values extracted by the steps before k, a later
\* one overriding an earlier one; the values of step k's own response are in
\* the map only after step k.
C23_StepSeesEarlierExtractions ==
    \A w \in Workers :
        /\ \A k \in 1 .. Len(instances[w].used) :
              instances[w].used[k] =
                  Overlaid(variableMaps[ConfigRef],
                           SubSeq(instances[w].responses, 1, k - 1))
        /\ instances[w].pc \in {"resolve", "do", "returned"} =>
              variableMaps[w] = Overlaid(variableMaps[ConfigRef],
                                         instances[w].responses)

\* Step 2 was resolved with the token of step 1's response in place of the
\* configuration's, while step 1 itself was resolved with the configuration's;
\* step 2 extracted the token again and the user.
C23_Witness ==
    \E w \in Workers :
        /\ instances[w].pc = "returned"
        /\ instances[w].used[1] = [n \in {"authToken"} |-> ConfigValue]
        /\ instances[w].used[2] =
               [n \in {"authToken"} |-> ResponseValue(w, instances[w].run, 1)]
        /\ variableMaps[w] =
               [n \in VarNames |-> ResponseValue(w, instances[w].run, 2)]

\* C24: the values substituted for {{$iteration}} are the consecutive integers
\* 1, 2, 3, ...: the n-th substitution of the process yields n, whatever the
\* interleaving of the workers, so no value is skipped or repeated.
C24_IterationsAreConsecutive ==
    /\ Len(iterations) = iterationCounter
    /\ \A n \in 1 .. Len(iterations) : iterations[n] = n

\* Both workers are in the middle of resolving their second step, and three
\* or more values were handed out.
C24_Witness ==
    /\ \A w \in Workers : instances[w].pc = "resolve" /\ instances[w].i = 2
    /\ \E w \in Workers : instances[w].left = 1
    /\ Len(iterations) >= 3

\* C25: the totals are stamped exactly once and only after every worker has
\* returned, and once Run / RunScenario has returned no goroutine of the run
\* writes to Stats: no worker outcome, no rate sample, no further stamp.
C25_StatsFinalAfterReturn ==
    [][/\ goroutines'.stamped # goroutines.stamped =>
             /\ goroutines.stamped = 0
             /\ \A w \in Workers : goroutines.worker[w] = "exited"
       /\ goroutines.run = "returned" =>
             /\ goroutines'.requests = goroutines.requests
             /\ goroutines'.requestRates = goroutines.requestRates
             /\ goroutines'.stamped = goroutines.stamped]_vars

\* The steps of the instance whose HTTP call was issued: every step but those
\* that failed while the body or the request was built.
DispatchedSteps ==
    {k \in 1 .. Len(executor.StepResults) :
        executor.StepResults[k].outcome # "construct"}

\* C26: every attempt whose HTTP call was issued adds exactly one sample to
\* the latency record, however it ended, and an attempt that failed before
\* the call adds none: through the first scenario instance the number of
\* latency samples is the number of steps dispatched.
C26_OneSamplePerDispatchedAttempt ==
    (executor.runs = 0 \/ (executor.runs = 1 /\ executor.pc = "returned")) =>
        stats.responseCount = Cardinality(DispatchedSteps)

\* A duration or timeout string of the configuration that is set and that
\* time.ParseDuration rejects.
InvalidDuration(str) == str # "" /\ ParseDuration(str).err

\* C27: an invalid duration string or an invalid timeout string is fatal: the
\* run never starts with such a configuration.
C27_InvalidDurationOrTimeoutIsFatal ==
    invocation.pc = "running" =>
        /\ ~InvalidDuration(invocation.Duration)
        /\ ~InvalidDuration(invocation.Timeout)

\* C28: with a ramp-up of D > 0 seconds and W > 1 workers, worker i waits
\* i x (D / (W - 1)), the division being the integer one: worker 0 does not
\* wait, the delays do not decrease with i, and the last worker waits at most
\* D; with one worker or no ramp-up nobody waits (and nothing is divided by 0).
C28_RampUpDelays ==
    LET D == rampUp.RampUpSec * Second
        W == rampUp.users
    IN  \A i \in DOMAIN rampUp.wait :
            /\ rampUp.wait[i] = IF rampUp.RampUpSec > 0 /\ W > 1
                                THEN i * (D \div (W - 1))
                                ELSE 0
            /\ i = 0 => rampUp.wait[i] = 0
            /\ rampUp.wait[i] <= D
            /\ \A j \in DOMAIN rampUp.wait : j <= i => rampUp.wait[j] <= rampUp.wait[i]

\* One second spread over four workers: the last one waits 999 ms, not 1000.
C28_Witness ==
    /\ rampUp.RampUpSec = 1
    /\ rampUp.users = 4
    /\ DOMAIN rampUp.wait = 0 .. 3
    /\ rampUp.wait[0] = 0
    /\ rampUp.wait[3] = 999

\* C29: a worker whose ramp-up delay is interrupted by the cancellation
\* returns at once: it takes no token and no concurrency slot, executes
\* nothing, and activeWorkers never counts it.
C29_InterruptedRampUpDoesNothing ==
    [][/\ \A w \in Workers :
             (pc[w] = "ramp" /\ pc'[w] = "exited") =>
                /\ cancelled
                /\ tokens' = tokens
                /\ semaphore' = semaphore
                /\ completed' = completed
                /\ stats' = stats
                /\ reqStats' = reqStats
                /\ iter'[w] = 0
                /\ activeWorkers' = activeWorkers
       /\ activeWorkers' = Cardinality({w \in Workers :
                                          pc'[w] \notin {"ramp", "exited"}})]_vars

\* The run was interrupted while worker 1 had a call in flight: worker 2 has
\* returned without an iteration and only worker 1 is counted.
C29_Witness ==
    /\ interrupted
    /\ runPc = "running"
    /\ pc[1] \in {"do", "sdo"}
    /\ pc[2] = "exited"
    /\ iter[2] = 0
    /\ completed = 0
    /\ activeWorkers = 1

\* C30: in request mode a worker takes a rate-limiter token, then a
\* concurrency slot, then executes one request, then releases the slot: with
\* a limiter the slot is requested only after Wait took a token, a request is
\* in flight only with a slot taken from the slot request, the slot is given
\* back when the request ends and before the worker loops or returns, the
\* slots in use are those of the requests in flight (a worker waiting for a
\* token holds none), and none is in use when the run has ended.
C30_TokenThenSlotThenRelease ==
    [][~cfg.scenario =>
          /\ \A w \in Workers :
                /\ (cfg.rate > 0 /\ pc[w] # "acq" /\ pc'[w] = "acq") =>
                      pc[w] = "wait" /\ tokens' = tokens - 1
                /\ (pc[w] # "do" /\ pc'[w] = "do") =>
                      pc[w] = "acq" /\ semaphore' = semaphore + 1
                /\ (pc[w] = "do" /\ pc'[w] # "do") =>
                      /\ semaphore' = semaphore - 1
                      /\ completed' = completed + 1
                      /\ pc'[w] \in {"top", "chk"}
          /\ semaphore' = Cardinality({w \in Workers : pc'[w] = "do"})
          /\ runPc' = "done" => semaphore' = 0]_vars

\* A worker waits for a token with none left while the other one, which took
\* the token, holds the only slot in use.
C30_Witness ==
    /\ ~cfg.scenario
    /\ cfg.rate > 0
    /\ tokens = 0
    /\ semaphore = 1
    /\ \E w \in Workers : pc[w] = "wait"
    /\ \E w \in Workers : pc[w] = "do"

\* The workers with a scenario instance in progress.
InScenario(p) == {w \in Workers : p[w] \in {"sctx", "sdo"}}

\* C31: in scenario mode a worker holds one concurrency slot from before the
\* first step of an instance until after its last step: the slot is taken
\* when the instance starts, given back when it ends and untouched between
\* the steps, so the slots in use are the instances in progress and these
\* never exceed concurrentUsers.
C31_SlotHeldForWholeScenario ==
    [][cfg.scenario =>
          /\ \A w \in Workers :
                /\ (w \notin InScenario(pc) /\ w \in InScenario(pc')) =>
                      pc[w] = "acq" /\ step'[w] = 1 /\ semaphore' = semaphore + 1
                /\ (w \in InScenario(pc) /\ w \in InScenario(pc')
                      /\ <<pc'[w], step'[w]>> # <<pc[w], step[w]>>) =>
                      semaphore' = semaphore
                /\ (w \in InScenario(pc) /\ w \notin InScenario(pc')) =>
                      semaphore' = semaphore - 1 /\ completed' = completed + 1
          /\ semaphore' = Cardinality(InScenario(pc'))
          /\ semaphore' <= ConcurrentUsers]_vars

\* Every worker has an instance in progress, one of them past its first step.
C31_Witness ==
    /\ cfg.scenario
    /\ InScenario(pc) = Workers
    /\ semaphore = ConcurrentUsers
    /\ \E w \in Workers : step[w] = NumSteps /\ pc[w] = "sdo"
    /\ \E w \in Workers : step[w] = 1

\* C32: in scenario mode no rate limiter exists, whatever rate limit is
\* configured: no token is ever there and no scenario worker waits for one.
\* In request mode the configured rate limit makes the workers wait.
C32_NoLimiterInScenarioMode ==
    /\ cfg.scenario => tokens = 0 /\ \A w \in Workers : pc[w] # "wait"
    /\ (\E w \in Workers : pc[w] = "wait") => ~cfg.scenario /\ cfg.rate > 0

\* A scenario run with a positive rate limit ended with every instance run.
C32_Witness ==
    /\ cfg.scenario
    /\ cfg.rate > 0
    /\ ~cfg.duration
    /\ runPc = "done"
    /\ completed = ConcurrentUsers * RequestsPerUser
    /\ tokens = 0

\* The element of the sorted samples at the nearest rank of percentile p:
\* index clamp(ceil(p * n / 100) - 1, 0, n - 1), 0 without samples.
NearestRank(times, p) ==
    IF Len(times) = 0 THEN 0
    ELSE SortFloat64s(times)[Max(0, Min(Len(times) - 1,
                                        Ceil(p * Len(times), 100) - 1)) + 1]

\* C33: GetLatencyPercentile(p) returns, for n >= 1 samples and an integer
\* p, the element of the sorted samples at index
\* clamp(ceil(p * n / 100) - 1, 0, n - 1), and 0 when there are no samples.
C33_PercentileIsNearestRank ==
    query # <<>> => query.value = NearestRank(responseTimes, query.percentile)

\* The workers whose GetOrCreateRequestStats call has returned.
Returned == {w \in Workers : updaters[w].pc \in {"entrylock", "count", "outcome",
                                                 "entryunlock", "done"}}

\* At most one entry was created per name, and the calls that have returned
\* for a name all returned the entry registered under it.
OneEntryPerName ==
    /\ \A i, j \in 1 .. Len(endpoints.heap) :
          endpoints.heap[i].Name = endpoints.heap[j].Name => i = j
    /\ \A w \in Returned :
          /\ updaters[w].name \in DOMAIN endpoints.RequestStats
          /\ endpoints.RequestStats[updaters[w].name] = updaters[w].reqStats

\* C34: for any interleaving of concurrent GetOrCreateRequestStats calls, at
\* most one entry is ever created per request name, every call with the same
\* name returns that same entry, and an entry once registered is never
\* replaced or removed.
C34_OneEntryPerNameNeverReplaced ==
    [][/\ OneEntryPerName'
       /\ \A n \in DOMAIN endpoints.RequestStats :
             /\ n \in DOMAIN endpoints'.RequestStats
             /\ endpoints'.RequestStats[n] = endpoints.RequestStats[n]]_vars

\* Two workers ask for the same name at the same time: one has created the
\* entry and not yet registered it, the other waits for the lock; and later
\* both have the same entry.
C34_Witness ==
    \E w1, w2 \in Workers :
        /\ w1 # w2
        /\ updaters[w1].name = updaters[w2].name
        /\ updaters[w1].pc = "store"
        /\ updaters[w2].pc = "lock"

\* C39: for every per-endpoint entry, in every state where the entry's lock
\* is not held, RequestCount = SuccessCount + FailureCount, under any
\* interleaving of the updates of request-mode and scenario-mode workers.
C39_RequestCountIsSuccessPlusFailure ==
    \A p \in 1 .. Len(endpoints.heap) :
        endpoints.heap[p].Mutex = 0 =>
            endpoints.heap[p].RequestCount =
                endpoints.heap[p].SuccessCount + endpoints.heap[p].FailureCount

\* An entry updated by two workers, once with a success and once with a
\* failure, and unlocked again.
C39_Witness ==
    \E p \in 1 .. Len(endpoints.heap) :
        /\ endpoints.heap[p].Mutex = 0
        /\ endpoints.heap[p].SuccessCount = 1
        /\ endpoints.heap[p].FailureCount = 1
        /\ endpoints.heap[p].RequestCount = 2

\* The sum of the samples of a latency record.
RECURSIVE SumOf(_)
SumOf(t) == IF t = <<>> THEN 0 ELSE Head(t) + SumOf(Tail(t))

\* No worker is inside AddResponseTime.
NoneInAddResponseTime ==
    \A w \in Workers : recorders[w].pc \notin {"load", "store", "unlock"}

\* C35: no update of Stats is lost under concurrency: once k IncrementSuccess,
\* m IncrementFailure, b AddBytes and j AddResponseTime calls have completed,
\* SuccessCount = k, FailureCount = m, TotalBytes is the sum of the byte
\* counts added, and the latency record holds exactly j samples, with
\* responseCount = j and totalResponseTime their sum.
C35_NoLostUpdate ==
    /\ counters.SuccessCount = counters.calls.IncrementSuccess
    /\ counters.FailureCount = counters.calls.IncrementFailure
    /\ counters.TotalBytes = counters.calls.bytes
    /\ NoneInAddResponseTime =>
          /\ Len(counters.responseTimes) = counters.calls.AddResponseTime
          /\ counters.responseCount = counters.calls.AddResponseTime
          /\ counters.totalResponseTime = counters.calls.time
          /\ counters.totalResponseTime = SumOf(counters.responseTimes)

\* Every worker has recorded a sample, a success and its bytes, the samples
\* differing.
C35_Witness ==
    /\ \A w \in Workers : recorders[w].pc = "done"
    /\ counters.calls.AddResponseTime = ConcurrentUsers
    /\ counters.calls.IncrementSuccess >= 1
    /\ counters.calls.IncrementFailure >= 1
    /\ counters.calls.bytes > ConcurrentUsers
    /\ counters.minResponseTime < counters.maxResponseTime

\* The sum of the six status-class counters.
StatusClassSum ==
    counters.Http1xxCount + counters.Http2xxCount + counters.Http3xxCount
        + counters.Http4xxCount + counters.Http5xxCount + counters.OtherCount

\* No attempt is in progress.
Quiescent == \A w \in Workers : recorders[w].pc \in {"idle", "done"}

\* C38: in request mode every recorded attempt increments exactly one of the
\* six status-class counters, the failures before a response being counted
\* under OtherCount; in every quiescent state the sum of the six counters
\* equals SuccessCount + FailureCount, the number of attempts recorded.
C38_StatusClassesCoverAttempts ==
    [][/\ StatusClassSum' \in {StatusClassSum, StatusClassSum + 1}
       /\ \A w \in Workers :
             /\ (recorders[w].pc = "other" /\ recorders'[w].pc = "done") =>
                   counters'.OtherCount = counters.OtherCount + 1
             /\ (recorders[w].pc = "response" /\ recorders'[w].pc = "read") =>
                   StatusClassSum' = StatusClassSum + 1
       /\ Quiescent' =>
             /\ StatusClassSum' = counters'.SuccessCount + counters'.FailureCount
             /\ StatusClassSum' =
                   Cardinality({w \in Workers : recorders'[w].pc = "done"})]_vars

\* One attempt failed before a response and one was answered, and both are
\* recorded.
C38_Witness ==
    /\ \A w \in Workers : recorders[w].pc = "done"
    /\ counters.OtherCount = 1
    /\ counters.Http2xxCount + counters.Http5xxCount = ConcurrentUsers - 1
    /\ counters.SuccessCount >= 1

\* The positions of a string holding a token of the kind, and of the name.
Positions(str, kind) == {i \in DOMAIN str : str[i].kind = kind}

PositionsOf(str, kind, name) ==
    {i \in DOMAIN str : str[i].kind = kind /\ str[i].name = name}

\* The variables of the map whose placeholder occurs in the template.
Referenced(input, variables) ==
    {v \in DOMAIN variables : Contains(input, VarPlaceholder(v))}

\* C36: resolveVariables substitutes the dynamic functions in the input
\* template first and the variables second: each occurrence of a dynamic
\* function in the template is replaced by a value generated for it alone,
\* the value of a referenced variable enters the result, and a
\* dynamic-function placeholder that enters only through a variable's value
\* is left unexpanded (no value is generated for it).
C36_DynamicFirstThenVariables ==
    resolved # <<>> /\ resolved.called =>
        /\ \A k \in DOMAIN DynamicFunctions :
              Cardinality(PositionsOf(resolved.result, "value", DynamicFunctions[k]))
                  = Cardinality(PositionsOf(resolved.input, "fn", DynamicFunctions[k]))
        /\ \A i, j \in Positions(resolved.result, "value") :
              resolved.result[i] = resolved.result[j] => i = j
        /\ resolved.calls = Cardinality(Positions(resolved.input, "fn"))
        /\ \A v \in Referenced(resolved.input, resolved.variables) :
              \A t \in DOMAIN resolved.variables[v] :
                  resolved.variables[v][t].kind \in {"text", "fn"} =>
                      Contains(resolved.result, resolved.variables[v][t])

\* A template with a dynamic function and a variable whose value holds the
\* placeholder of a dynamic function: the result has the generated value
\* and the placeholder.
C36_Witness ==
    /\ resolved # <<>>
    /\ resolved.called
    /\ Positions(resolved.input, "fn") # {}
    /\ \E v \in Referenced(resolved.input, resolved.variables) :
          resolved.variables[v] = <<FnPlaceholder("$uuid")>>
    /\ Positions(resolved.result, "value") # {}
    /\ Positions(resolved.result, "fn") # {}

\* The expected value is the code itself.
IsCode(x, actual) == x.type \in {"int", "float64"} /\ x.tenths = 10 * actual

\* The expected value is a number whose integer part is the code.
TruncatesTo(x, actual) ==
    x.type \in {"int", "float64"} /\ x.tenths \div 10 = actual

\* The status rule and the range rule of the call passed.
StatusRulePassed == "unexpected status code" \notin validation.errors

RangeRulePassed == "status code not in range" \notin validation.errors

\* The range rule passes exactly for min <= status <= max.
RangeRuleInclusive ==
    validation.validate.StatusRange.set =>
        (RangeRulePassed <=>
            /\ validation.validate.StatusRange.Min <= validation.StatusCode
            /\ validation.StatusCode <= validation.validate.StatusRange.Max)

\* C37 as stated: the status rule passes if and only if the actual status
\* equals the single expected code or at least one element of the expected
\* list (an empty list never passes); the range rule passes if and only if
\* min <= status <= max.
C37_StatusPassesIffEqual ==
    validation # <<>> /\ validation.called =>
        /\ validation.validate.Status # Nil =>
              (StatusRulePassed <=>
                  \/ IsCode(validation.validate.Status, validation.StatusCode)
                  \/ \E i \in DOMAIN validation.validate.Status.elems :
                        IsCode(validation.validate.Status.elems[i], validation.StatusCode))
        /\ RangeRuleInclusive

\* C37 amended: the status rule passes if and only if the expected value is
\* a number whose integer part equals the actual status, or a list with such
\* a number among its elements (an empty list, or a list without numbers,
\* never passes), or a value that is neither a number nor a list, which
\* passes for every status; the range rule passes if and only if
\* min <= status <= max.
C37_StatusPassesIffTruncatedEqualOrUnknownType ==
    validation # <<>> /\ validation.called =>
        /\ validation.validate.Status # Nil =>
              (StatusRulePassed <=>
                  \/ TruncatesTo(validation.validate.Status, validation.StatusCode)
                  \/ \E i \in DOMAIN validation.validate.Status.elems :
                        TruncatesTo(validation.validate.Status.elems[i], validation.StatusCode)
                  \/ validation.validate.Status.type \notin {"int", "float64", "list"})
        /\ RangeRuleInclusive

\* A response with status 404 validated against the string "200" and a range
\* that ends at 404: neither rule reports an error.
C37_Witness ==
    /\ validation # <<>>
    /\ validation.called
    /\ validation.StatusCode = 404
    /\ validation.validate.Status = StringValue
    /\ validation.validate.StatusRange = [set |-> TRUE, Min |-> 200, Max |-> 404]
    /\ validation.errors = {}

\* C40: after any sequence of RecordValue, Merge and Reset calls on an
\* HdrStats, its count field equals the total count of its histogram: a
\* RecordValue that returns an error leaves count, min and max unchanged,
\* Merge adds to count exactly the values merged into the histogram, and
\* Reset returns count to 0 with Min() = Max() = 0.
C40_CountEqualsHistogramTotal ==
    [][/\ hdr'.h.count = HdrStatsCount(hdr'.h)
       /\ (hdr'.last.op = "RecordValue" /\ hdr'.last.err) =>
             /\ hdr'.h.count = hdr.h.count
             /\ hdr'.h.minValue = hdr.h.minValue
             /\ hdr'.h.maxValue = hdr.h.maxValue
       /\ hdr'.last.op = "Merge" =>
             hdr'.h.count - hdr.h.count = HdrStatsCount(hdr'.h) - HdrStatsCount(hdr.h)
       /\ hdr'.last.op = "Reset" =>
             /\ hdr'.h.count = 0
             /\ HdrStatsMin(hdr'.h) = 0
             /\ HdrStatsMax(hdr'.h) = 0]_vars

====
